---- MODULE Spec2Model ----
(***************************************************************************)
(* Verification model of the road-photo capture agent: the delivery        *)
(* pipeline (src/src/upload_manager.py), the capture controller            *)
(* (src/src/main_controller.py) and the camera arbiter                     *)
(* (src/src/camera_manager.py).                                            *)
(***************************************************************************)
EXTENDS Integers, Sequences, FiniteSets, TLC

None == "None"

(***************************************************************************)
(* Configuration and bounds.                                               *)
(***************************************************************************)
\* num_workers, as the controller constructs the pipeline
NumWorkers == 2
\* max_queue_size of the pipeline under analysis
MaxQueueSize == 1
\* smallest max_retries (config.upload.retry.max_attempts) explored
MaxRetries == 2
\* number of enqueue calls explored
MaxPayloads == 2
\* number of worker threads that can outlive stop()'s join at the same time
MaxOrphans == 1

\* Thread slots: 1..NumWorkers hold the threads of self.workers, the others
\* hold threads that stop() gave up joining and dropped from the list.
ListTids == 1..NumWorkers
Tids == 1..(NumWorkers + MaxOrphans)
Payloads == 1..MaxPayloads

\* What the backend does with the request of one session.post call: answer
\* 200, answer 400/401/403/404, keep answering a status of the session's
\* status_forcelist (429, 500, 502, 503, 504), answer any other status, not
\* answer in time, refuse the connection, or make the call fail otherwise.
Responses == {"200", "client_error", "forced_status", "other_status", "timeout",
              "connection_error", "unexpected"}
\* The outcomes of session.post that upload_sync retries.
Retryable == {"other_status", "timeout", "connection_error"}

VARIABLES
    upload_queue,      \* queue.Queue contents, head first
    unfinished_tasks,  \* queue.Queue.unfinished_tasks (put: +1, task_done: -1)
    up_running,        \* UploadManager.running
    workers,           \* UploadManager.workers, the list stop() joins
    up_stats,          \* UploadManager.stats
    wk,                \* per worker thread: position and upload_sync locals
    main_pc,           \* position of the thread calling start()/stop()
    main_stack,        \* where that thread's nested calls return to
    stop_wait,         \* wait_completion of the stop() call in progress
    join_idx,          \* index of stop()'s loop over self.workers
    next_payload,      \* next payload the producer hands to enqueue
    enq_ret,           \* return value of the last enqueue call, as Python prints it
    accepted_running,  \* payloads enqueue accepted while the pipeline was running
    enq_in_stop,       \* an enqueue happened during the stop() call in progress
    taken,             \* per payload: number of times a worker dequeued it
    attempted          \* payloads for which session.post was called at least once

upVars == <<upload_queue, unfinished_tasks, up_running, workers, up_stats, wk,
            main_pc, main_stack, stop_wait, join_idx, next_payload,
            enq_ret, accepted_running, enq_in_stop, taken, attempted>>

VARIABLES
    ctl_running,       \* MainController.running
    paused,            \* MainController.paused
    sched_running,     \* the scheduler is started and fires the capture job
    ticks,             \* interval-trigger firings so far
    skipped,           \* firings the scheduler skipped (it logs each one)
    cyc,               \* per executor thread: the _capture_task instance it runs
    camera_index,      \* MainController.camera_index
    stats,             \* MainController.stats
    start_ret,         \* what the latest call of MainController.start() raised, if anything
    selected           \* the indexes of camera_managers the cycles captured from, in order

ctlVars == <<ctl_running, paused, sched_running, ticks, skipped, cyc, camera_index,
            stats, start_ret, selected>>

VARIABLES
    connected_devices, \* CameraManager.connected_devices, shared by the instances
    cam,               \* per CameraManager instance: its fields and position
    last_capture       \* the latest capture() call that returned, and what it did

camVars == <<connected_devices, cam, last_capture>>

VARIABLES
    retry_cfg          \* config.upload.retry: max_attempts, base_delay, exponential_base

\* everything outside the delivery pipeline
VARIABLES
    health             \* what UploadManager.health_check returned last

VARIABLES
    gps_pc,            \* GPSReader: "idle", or the register the running call is reading
    gps_attempt,       \* "attempt" of the running _read_register/_read_float loop
    gps_sleeps,        \* time.sleep(0.05) calls made by the running read
    gps_locals,        \* local variables of the running read_gps_data call
    gps_reads,         \* registers the current or last call sent a request for
    last_read,         \* the last _read_register/_read_float call that returned
    gps_fix,           \* <<>> while a call runs, <<the GPSPosition it returned>> after
    gps_version        \* what read_version returned last: a string, None, or "unset"

gpsVars == <<gps_pc, gps_attempt, gps_sleeps, gps_locals, gps_reads, last_read, gps_fix,
             gps_version>>

nonUpVars == <<ctlVars, camVars, retry_cfg, health, gpsVars>>

vars == <<upVars, ctlVars, camVars, retry_cfg, health, gpsVars>>

(***************************************************************************)
(* Positioning reader: GPSReader.  Optional values are <<>> (None) or      *)
(* <<v>>; a float register's value is stood for by an integer.             *)
(***************************************************************************)
\* "retry: int = 3" of _read_register and _read_float
Retry == 3

\* PositioningStatus.VALID, AntennaStatus.GOOD/OPEN/SHORT, DirectionCode
PositioningStatusVALID == 1
AntennaStatusGOOD == 0
AntennaStatusOPEN == 1
AntennaStatusSHORT == 2
DirectionCodeEAST == 69
DirectionCodeWEST == 87
DirectionCodeNORTH == 78
DirectionCodeSOUTH == 83

\* the registers read with read_float (two registers each)
FloatRegisters ==
    {"LONGITUDE_VALUE", "LATITUDE_VALUE", "ALTITUDE", "GROUND_SPEED", "GROUND_HEADING"}

\* the registers read_gps_data reads
Registers ==
    {"POSITIONING_STATUS", "ANTENNA_STATUS",
     "LONGITUDE_DIRECTION", "LONGITUDE_VALUE", "LATITUDE_DIRECTION",
     "LATITUDE_VALUE", "ALTITUDE", "GROUND_SPEED", "GROUND_HEADING",
     "BEIJING_YEAR", "BEIJING_MONTH", "BEIJING_DAY", "BEIJING_HOUR",
     "BEIJING_MINUTE", "BEIJING_SECOND",
     "GPS_SATELLITES_USED", "BDS_SATELLITES_USED"}

\* the largest of the consecutive version register values explored
MaxVersionRaw == 300

\* the version register values explored: the small ones, and the largest
\* 16-bit one
VersionValues == (0..MaxVersionRaw) \cup {65535}

\* the values the module is taken to answer with, register by register
RegValues(reg) ==
    CASE reg = "VERSION"             -> VersionValues
      [] reg = "POSITIONING_STATUS"  -> {0, PositioningStatusVALID}
      [] reg = "ANTENNA_STATUS"      -> {AntennaStatusGOOD, AntennaStatusOPEN,
                                         AntennaStatusSHORT, 3}
      [] reg = "LONGITUDE_DIRECTION" -> {DirectionCodeEAST, DirectionCodeWEST, 0}
      [] reg = "LONGITUDE_VALUE"     -> {116}
      [] reg = "LATITUDE_DIRECTION"  -> {DirectionCodeNORTH, DirectionCodeSOUTH}
      [] reg = "LATITUDE_VALUE"      -> {39}
      [] reg = "ALTITUDE"            -> {50}
      [] reg = "GROUND_SPEED"        -> {5}
      [] reg = "GROUND_HEADING"      -> {90}
      [] reg = "BEIJING_YEAR"        -> {2025}
      [] reg = "BEIJING_MONTH"       -> {2, 13}
      [] reg = "BEIJING_DAY"         -> {28, 30}
      [] reg = "BEIJING_HOUR"        -> {15}
      [] reg = "BEIJING_MINUTE"      -> {30}
      [] reg = "BEIJING_SECOND"      -> {45, 60}
      [] reg = "GPS_SATELLITES_USED" -> {0, 7}
      [] reg = "BDS_SATELLITES_USED" -> {4}

\* GPSPosition with only "valid" given: the dataclass defaults
GPSPosition(valid) ==
    [valid |-> valid, latitude |-> <<>>, longitude |-> <<>>, altitude |-> <<>>,
     lat_direction |-> <<>>, lon_direction |-> <<>>, timestamp |-> <<>>,
     antenna_status |-> <<>>, gps_satellites |-> 0, bds_satellites |-> 0,
     speed |-> <<>>, heading |-> <<>>, error_message |-> <<>>]

NoLocals ==
    [antenna_status |-> <<>>, lon_dir_code |-> <<>>, lon_value |-> <<>>,
     lat_dir_code |-> <<>>, lat_value |-> <<>>, altitude |-> <<>>,
     speed |-> <<>>, heading |-> <<>>, year |-> <<>>, month |-> <<>>,
     day |-> <<>>, hour |-> <<>>, minute |-> <<>>, timestamp |-> <<>>,
     gps_sats |-> 0]

NoRead == [reg |-> "", attempts |-> 0, sleeps |-> 0, result |-> <<>>]

GPSReaderInit ==
    /\ gps_pc = "idle"
    /\ gps_attempt = 0
    /\ gps_sleeps = 0
    /\ gps_locals = NoLocals
    /\ gps_reads = {}
    /\ last_read = NoRead
    /\ gps_fix = <<>>
    /\ gps_version = "unset"

\* read_version: None when the read failed, else
\* "major = (version_raw >> 4) & 0x0F", "minor = version_raw & 0x0F",
\* f"{major}.{minor}"
FormatVersionMut(version_raw) ==
    ToString(version_raw \div 16) \o "." \o ToString(version_raw % 16)
FormatVersion(version_raw) ==
    ToString((version_raw \div 16) % 16) \o "." \o ToString(version_raw % 16)

\* check_positioning_status: "status == PositioningStatus.VALID if status is
\* not None else False"
PositioningValidMut(status) == status # <<>>
PositioningValid(status) == status # <<>> /\ status[1] = PositioningStatusVALID

\* check_antenna_status: None when the read failed, else status_map.get(status,
\* 'unknown')
AntennaStatusName(status) ==
    IF status = <<>> THEN <<>>
    ELSE CASE status[1] = AntennaStatusGOOD  -> <<"good">>
           [] status[1] = AntennaStatusOPEN  -> <<"open">>
           [] status[1] = AntennaStatusSHORT -> <<"short">>
           [] OTHER                          -> <<"unknown">>

\* "if antenna_status in ('open', 'short')"
AntennaFaultMut(name) == name = <<"short">>
AntennaFault(name) == name \in {<<"open">>, <<"short">>}

\* "if None in (lon_dir_code, lon_value, lat_dir_code, lat_value)"
PositionMissingMut(l) == <<>> \in {l.lon_dir_code, l.lon_value, l.lat_dir_code}
PositionMissing(l) ==
    <<>> \in {l.lon_dir_code, l.lon_value, l.lat_dir_code, l.lat_value}

\* the number of days of a month of the proleptic Gregorian calendar
DaysInMonth(y, m) ==
    IF m = 2 THEN (IF y % 4 = 0 /\ (y % 100 # 0 \/ y % 400 = 0) THEN 29 ELSE 28)
    ELSE IF m \in {4, 6, 9, 11} THEN 30 ELSE 31

\* the arguments datetime(...) accepts; it raises ValueError for the others
ValidDateTime(y, mo, d, h, mi, sec) ==
    /\ y \in 1..9999
    /\ mo \in 1..12
    /\ d \in 1..DaysInMonth(y, mo)
    /\ h \in 0..23
    /\ mi \in 0..59
    /\ sec \in 0..59

\* _read_beijing_time once the six registers were read: None when one of them
\* is None or when datetime() raised ValueError
BeijingTime(l, second) ==
    IF <<>> \in {l.year, l.month, l.day, l.hour, l.minute, second} THEN <<>>
    ELSE IF ValidDateTime(l.year[1], l.month[1], l.day[1], l.hour[1],
                          l.minute[1], second[1])
         THEN << <<l.year[1], l.month[1], l.day[1], l.hour[1], l.minute[1],
                   second[1]>> >>
         ELSE <<>>

\* the three invalid fixes of read_gps_data and its valid one
PositioningInvalidFix ==
    [GPSPosition(FALSE) EXCEPT
        !.error_message = <<"Positioning invalid - waiting for GPS fix">>]

AntennaFaultFix(name) ==
    [GPSPosition(FALSE) EXCEPT
        !.antenna_status = name,
        !.error_message = <<"Antenna fault: " \o name[1]>>]

PositionFailedFixMut(l) ==
    [GPSPosition(FALSE) EXCEPT
        !.longitude = l.lon_value,
        !.error_message = <<"Failed to read position data">>]
PositionFailedFix(l) ==
    [GPSPosition(FALSE) EXCEPT
        !.error_message = <<"Failed to read position data">>]

ValidFix(l, bds_sats) ==
    [GPSPosition(TRUE) EXCEPT
        !.latitude = l.lat_value,
        !.longitude = l.lon_value,
        !.altitude = l.altitude,
        !.lat_direction =
            IF l.lat_dir_code[1] = DirectionCodeNORTH THEN <<"N">> ELSE <<"S">>,
        !.lon_direction =
            IF l.lon_dir_code[1] = DirectionCodeEAST THEN <<"E">> ELSE <<"W">>,
        !.timestamp = l.timestamp,
        !.antenna_status = l.antenna_status,
        !.gps_satellites = l.gps_sats,
        !.bds_satellites = bds_sats,
        !.speed = l.speed,
        !.heading = l.heading]

\* "self._read_register(...) or 0"
OrZeroMut(res) == IF res = <<>> THEN 1 ELSE res[1]
OrZero(res) == IF res = <<>> THEN 0 ELSE res[1]

\* where read_gps_data goes next
Goto(reg, l) == [pc |-> reg, locals |-> l, fix |-> <<>>]
Return(fix) == [pc |-> "idle", locals |-> NoLocals, fix |-> <<fix>>]

\* read_gps_data after the read of register reg returned res (None or a value),
\* with the local variables l
AfterRead(reg, res, l) ==
    CASE reg = "POSITIONING_STATUS" ->
            IF PositioningValid(res) THEN Goto("ANTENNA_STATUS", l)
            ELSE Return(PositioningInvalidFix)
      [] reg = "ANTENNA_STATUS" ->
            IF AntennaFault(AntennaStatusName(res))
            THEN Return(AntennaFaultFix(AntennaStatusName(res)))
            ELSE Goto("LONGITUDE_DIRECTION",
                      [l EXCEPT !.antenna_status = AntennaStatusName(res)])
      [] reg = "LONGITUDE_DIRECTION" ->
            Goto("LONGITUDE_VALUE", [l EXCEPT !.lon_dir_code = res])
      [] reg = "LONGITUDE_VALUE" ->
            Goto("LATITUDE_DIRECTION", [l EXCEPT !.lon_value = res])
      [] reg = "LATITUDE_DIRECTION" ->
            Goto("LATITUDE_VALUE", [l EXCEPT !.lat_dir_code = res])
      [] reg = "LATITUDE_VALUE" ->
            IF PositionMissing([l EXCEPT !.lat_value = res])
            THEN Return(PositionFailedFix([l EXCEPT !.lat_value = res]))
            ELSE Goto("ALTITUDE", [l EXCEPT !.lat_value = res])
      [] reg = "ALTITUDE" -> Goto("GROUND_SPEED", [l EXCEPT !.altitude = res])
      [] reg = "GROUND_SPEED" -> Goto("GROUND_HEADING", [l EXCEPT !.speed = res])
      [] reg = "GROUND_HEADING" -> Goto("BEIJING_YEAR", [l EXCEPT !.heading = res])
      [] reg = "BEIJING_YEAR" -> Goto("BEIJING_MONTH", [l EXCEPT !.year = res])
      [] reg = "BEIJING_MONTH" -> Goto("BEIJING_DAY", [l EXCEPT !.month = res])
      [] reg = "BEIJING_DAY" -> Goto("BEIJING_HOUR", [l EXCEPT !.day = res])
      [] reg = "BEIJING_HOUR" -> Goto("BEIJING_MINUTE", [l EXCEPT !.hour = res])
      [] reg = "BEIJING_MINUTE" -> Goto("BEIJING_SECOND", [l EXCEPT !.minute = res])
      [] reg = "BEIJING_SECOND" ->
            Goto("GPS_SATELLITES_USED",
                 [l EXCEPT !.timestamp = BeijingTime(l, res),
                           !.year = <<>>, !.month = <<>>, !.day = <<>>,
                           !.hour = <<>>, !.minute = <<>>])
      [] reg = "GPS_SATELLITES_USED" ->
            Goto("BDS_SATELLITES_USED", [l EXCEPT !.gps_sats = OrZero(res)])
      [] reg = "BDS_SATELLITES_USED" -> Return(ValidFix(l, OrZero(res)))

\* a caller enters read_gps_data; its first read is the positioning status
ReadGpsData ==
    /\ UNCHANGED <<upVars, ctlVars, camVars, retry_cfg, health>>
    /\ gps_pc = "idle"
    /\ gps_pc' = "POSITIONING_STATUS"
    /\ gps_attempt' = 0
    /\ gps_sleeps' = 0
    /\ gps_locals' = NoLocals
    /\ gps_reads' = {}
    /\ gps_fix' = <<>>
    /\ UNCHANGED <<last_read, gps_version>>

\* a caller enters read_version; its only read is the version register
ReadVersion ==
    /\ UNCHANGED <<upVars, ctlVars, camVars, retry_cfg, health>>
    /\ gps_pc = "idle"
    /\ gps_pc' = "VERSION"
    /\ gps_attempt' = 0
    /\ gps_sleeps' = 0
    /\ gps_reads' = {}
    /\ gps_version' = "unset"
    /\ UNCHANGED <<gps_locals, last_read, gps_fix>>

\* the read of register gps_pc returns res to read_gps_data after "attempts"
\* transport attempts and "sleeps" delays
ReadReturns(res, attempts, sleeps) ==
    /\ last_read' = [reg |-> gps_pc, attempts |-> attempts, sleeps |-> sleeps,
                     result |-> res]
    /\ IF gps_pc = "VERSION"
       THEN /\ gps_pc' = "idle"
            /\ gps_version' = IF res = <<>> THEN None ELSE FormatVersion(res[1])
            /\ UNCHANGED <<gps_locals, gps_fix>>
       ELSE /\ gps_pc' = AfterRead(gps_pc, res, gps_locals).pc
            /\ gps_locals' = AfterRead(gps_pc, res, gps_locals).locals
            /\ gps_fix' = AfterRead(gps_pc, res, gps_locals).fix
            /\ UNCHANGED gps_version
    /\ gps_attempt' = 0
    /\ gps_sleeps' = 0

\* _read_register/_read_float: instrument.read_register or read_float returns
\* v, "return value"
TransportOk(v) ==
    /\ UNCHANGED <<upVars, ctlVars, camVars, retry_cfg, health>>
    /\ gps_pc # "idle"
    /\ v \in RegValues(gps_pc)
    /\ gps_reads' = gps_reads \cup {gps_pc}
    /\ ReadReturns(<<v>>, gps_attempt + 1, gps_sleeps)

\* "if attempt == retry - 1"
IsLastAttemptMut(attempt) == FALSE
IsLastAttempt(attempt) == attempt = Retry - 1

\* _read_register/_read_float: the transport call raises; "except Exception"
\* returns None on the last attempt, else sleeps and goes round the
\* "for attempt in range(retry)" loop, whose end is "return None"
TransportFail ==
    /\ UNCHANGED <<upVars, ctlVars, camVars, retry_cfg, health>>
    /\ gps_pc # "idle"
    /\ gps_reads' = gps_reads \cup {gps_pc}
    /\ IF IsLastAttempt(gps_attempt)
       THEN ReadReturns(<<>>, gps_attempt + 1, gps_sleeps)
       ELSE IF gps_attempt + 1 < Retry
            THEN /\ gps_attempt' = gps_attempt + 1
                 /\ gps_sleeps' = gps_sleeps + 1
                 /\ UNCHANGED <<gps_pc, gps_locals, last_read, gps_fix, gps_version>>
            ELSE ReadReturns(<<>>, gps_attempt + 1, gps_sleeps + 1)

(***************************************************************************)
(* Delivery pipeline: UploadManager.                                       *)
(***************************************************************************)
Range(seq) == {seq[i] : i \in 1..Len(seq)}

NoWorker == [pc |-> "unborn", data |-> 0, attempt |-> 0, posts |-> 0, sleeps |-> 0,
             delay |-> 0]

FreshWorker == [NoWorker EXCEPT !.pc = "loop"]

\* no health check has returned yet
NoHealth ==
    [max_queue_size |-> 0, queue_size |-> 0, answer |-> None,
     backend_reachable |-> FALSE, queue_status |-> "unknown",
     workers_running |-> 0, errors |-> <<>>]

UploadManagerInit ==
    /\ health = NoHealth
    /\ upload_queue = <<>>
    /\ unfinished_tasks = 0
    /\ up_running = FALSE
    /\ workers = <<>>
    /\ up_stats = [total_uploaded |-> 0, total_failed |-> 0, last_error |-> None]
    /\ wk = [t \in Tids |-> NoWorker]
    /\ main_pc = "idle"
    /\ main_stack = <<>>
    /\ stop_wait = FALSE
    /\ join_idx = 0
    /\ next_payload = 1
    /\ enq_ret = None
    /\ accepted_running = {}
    /\ enq_in_stop = FALSE
    /\ taken = [p \in Payloads |-> 0]
    /\ attempted = {}

\* queue.Queue(maxsize=max_queue_size).put(block=False) raises Full
QueueFullMut(q) == Len(q) > MaxQueueSize
QueueFull(q) == Len(q) >= MaxQueueSize

\* UploadManager.enqueue(data): non-blocking put, "Queue full" on queue.Full
EnqueueEffect(p) ==
    /\ IF ~QueueFull(upload_queue)
       THEN /\ upload_queue' = Append(upload_queue, p)
            /\ unfinished_tasks' = unfinished_tasks + 1
            /\ accepted_running' =
                   IF up_running THEN accepted_running \cup {p} ELSE accepted_running
            /\ enq_ret' = "True"
            /\ UNCHANGED up_stats
       ELSE /\ up_stats' = [up_stats EXCEPT !.last_error = "Queue full"]
            /\ enq_ret' = "False"
            /\ UNCHANGED <<upload_queue, unfinished_tasks, accepted_running>>
    /\ enq_in_stop' = (enq_in_stop \/ main_pc \in {"up_stop", "queue_join", "join_workers"})

\* a producer thread calling enqueue with the next payload
Enqueue ==
    /\ UNCHANGED nonUpVars
    /\ next_payload <= MaxPayloads
    /\ EnqueueEffect(next_payload)
    /\ next_payload' = next_payload + 1
    /\ UNCHANGED <<up_running, workers, wk, main_pc, main_stack, stop_wait,
                   join_idx, taken, attempted>>

\* upload_sync: "if attempt < self.max_retries - 1" (sleep and retry, else give up)
AttemptsRemainMut(attempt) == attempt < retry_cfg.max_attempts
AttemptsRemain(attempt) == attempt < retry_cfg.max_attempts - 1

\* upload_sync's error text recorded as last_error on a counted failure (the
\* texts of the four kinds of failure are not told apart)
ErrorMsg(resp) == "Upload error"

\* RetryConfig's default delays (seconds) with a small max_attempts, and the
\* retry configurations explored
DefaultRetryConfig ==
    [base_delay |-> 2, exponential_base |-> 2, max_attempts |-> MaxRetries]
RetryConfigs ==
    [base_delay : {1, 2}, exponential_base : {2, 3},
     max_attempts : {MaxRetries, MaxRetries + 1}]

\* MainController._init_components gives the pipeline max_retries =
\* config.upload.retry.max_attempts and retry_delay =
\* config.upload.retry.base_delay (and nothing else of the retry policy)
ConfigInit == retry_cfg = DefaultRetryConfig

RECURSIVE Pow(_, _)
Pow(b, n) == IF n = 0 THEN 1 ELSE b * Pow(b, n - 1)

\* upload_sync: "delay = self.retry_delay * (2 ** attempt)"
BackoffDelay(attempt) == retry_cfg.base_delay * Pow(2, attempt)

\* upload_sync's locals after iteration `attempt` ended in a backoff sleep:
\* the for loop goes on while attempts remain in range(max_retries), else it
\* falls through to the "Max retries exceeded" return.
AfterSleep(w) ==
    IF w.attempt + 1 < retry_cfg.max_attempts
    THEN [w EXCEPT !.attempt = @ + 1, !.posts = @ + 1, !.sleeps = @ + 1,
                   !.delay = BackoffDelay(w.attempt)]
    ELSE [NoWorker EXCEPT !.pc = "task_done", !.data = w.data,
                          !.posts = w.posts + 1, !.sleeps = w.sleeps + 1,
                          !.delay = BackoffDelay(w.attempt)]

\* upload_sync returns a result to _upload_worker, after posts calls of
\* session.post
Returned(w) == [NoWorker EXCEPT !.pc = "task_done", !.data = w.data,
                                !.posts = w.posts + 1, !.sleeps = w.sleeps,
                                !.delay = w.delay]

\* session.post on the session _create_session builds: the adapter's
\* Retry(total=3, status_forcelist=[429, 500, 502, 503, 504]) repeats the
\* request by itself on a status of the list and, when the status persists,
\* raises requests.exceptions.RetryError instead of returning the response;
\* every other outcome reaches upload_sync as it is.
SessionPost(answer) == IF answer = "forced_status" THEN "RetryError" ELSE answer

\* session.post returned a response (it did not raise)
IsResponse(resp) == resp \in {"200", "client_error", "other_status"}

\* "elif response.status_code in [400, 401, 403, 404]"
IsClientErrorMut(resp) == FALSE
IsClientError(resp) == resp = "client_error"

\* health_check's queue test: "queue_size > self.max_queue_size * 0.8" is
\* critical, else "queue_size > self.max_queue_size * 0.5" is warning, else ok
\* (the products are compared exactly, ten times enlarged)
QueueStatus(queue_size, max_queue_size) ==
    IF 10 * queue_size > 8 * max_queue_size THEN "critical"
    ELSE IF 10 * queue_size > 5 * max_queue_size THEN "warning"
    ELSE "ok"

\* what the backend may do with the probe request: answer with a status, time
\* out, refuse the connection, or keep answering with a status of the
\* adapter's status_forcelist
ProbeResponses == {"200", "201", "400", "401", "404", "501"}
ProbeAnswers == ProbeResponses \cup {"Timeout", "ConnectionError", "forced_status"}

\* "health['backend_reachable'] = response.status_code in [200, 400, 404]"
BackendReachable(resp) == resp \in {"200", "400", "404"}

\* health_check() of a pipeline of capacity max_queue_size that holds
\* queue_size payloads and has "alive" live workers in its list, with the
\* backend answering the probe with "answer"; the bare "except:" around the
\* probe appends "Backend unreachable"
HealthCheck(max_queue_size, queue_size, alive, answer) ==
    /\ UNCHANGED <<upVars, ctlVars, camVars, retry_cfg, gpsVars>>
    /\ health' =
          [max_queue_size |-> max_queue_size,
           queue_size |-> queue_size,
           answer |-> answer,
           workers_running |-> alive,
           queue_status |-> QueueStatus(queue_size, max_queue_size),
           backend_reachable |-> SessionPost(answer) \in ProbeResponses
                                   /\ BackendReachable(SessionPost(answer)),
           errors |->
               (IF alive < NumWorkers THEN <<"Only workers running">> ELSE <<>>)
               \o (IF QueueStatus(queue_size, max_queue_size) = "critical"
                   THEN <<"Queue nearly full">> ELSE <<>>)
               \o (IF SessionPost(answer) \in ProbeResponses
                   THEN <<>> ELSE <<"Backend unreachable">>)]

\* One iteration of upload_sync's for loop: session.post, the branch on what
\* it gave, and the backoff sleep when the iteration ends in one. A response
\* that is neither 200 nor a client error takes the else branch, which
\* retries like the Timeout and ConnectionError handlers; any other exception
\* is a failure at once.
UploadAttempt(t, answer) ==
    /\ UNCHANGED nonUpVars
    /\ wk[t].pc = "post"
    /\ attempted' = attempted \cup {wk[t].data}
    /\ LET resp == SessionPost(answer) IN
       IF resp = "200"
       THEN /\ wk' = [wk EXCEPT ![t] = Returned(@)]
            /\ up_stats' = [up_stats EXCEPT !.total_uploaded = @ + 1]
       ELSE IF IsClientError(resp)
       THEN /\ wk' = [wk EXCEPT ![t] = Returned(@)]
            /\ UNCHANGED up_stats
       ELSE IF IsResponse(resp) \/ resp \in Retryable
       THEN IF AttemptsRemain(wk[t].attempt)
            THEN /\ wk' = [wk EXCEPT ![t] = AfterSleep(@)]
                 /\ UNCHANGED up_stats
            ELSE /\ wk' = [wk EXCEPT ![t] = Returned(@)]
                 /\ up_stats' = [up_stats EXCEPT !.total_failed = @ + 1,
                                                 !.last_error = ErrorMsg(resp)]
       ELSE /\ wk' = [wk EXCEPT ![t] = Returned(@)]
            /\ up_stats' = [up_stats EXCEPT !.total_failed = @ + 1,
                                            !.last_error = ErrorMsg(resp)]
    /\ UNCHANGED <<upload_queue, unfinished_tasks, up_running, workers,
                   main_pc, main_stack, stop_wait, join_idx, next_payload, enq_ret,
                   accepted_running, enq_in_stop, taken>>

\* _upload_worker: "while self.running:"; a thread that ended and that no list
\* refers to any more leaves its slot
WorkerLoop(t) ==
    /\ UNCHANGED nonUpVars
    /\ wk[t].pc = "loop"
    /\ wk' = [wk EXCEPT ![t].pc =
                 IF up_running THEN "get"
                 ELSE IF t \in Range(workers) THEN "exited" ELSE "unborn"]
    /\ UNCHANGED <<upload_queue, unfinished_tasks, up_running, workers, up_stats,
                   main_pc, main_stack, stop_wait, join_idx, next_payload,
                   enq_ret, accepted_running, enq_in_stop, taken, attempted>>

\* queue.Queue.get removes, under the queue's mutex, the item it returns
AfterGetMut(q) == q
AfterGet(q) == Tail(q)

\* _upload_worker: upload_queue.get(timeout=1.0) returns an item
WorkerGet(t) ==
    /\ UNCHANGED nonUpVars
    /\ wk[t].pc = "get"
    /\ upload_queue # <<>>
    /\ wk' = [wk EXCEPT ![t] = [NoWorker EXCEPT !.pc = "post",
                                                !.data = Head(upload_queue)]]
    /\ upload_queue' = AfterGet(upload_queue)
    /\ taken' = [taken EXCEPT ![Head(upload_queue)] = @ + 1]
    /\ UNCHANGED <<unfinished_tasks, up_running, workers, up_stats,
                   main_pc, main_stack, stop_wait, join_idx, next_payload, enq_ret,
                   accepted_running, enq_in_stop, attempted>>

\* _upload_worker: get times out on an empty queue (queue.Empty: continue)
WorkerGetEmpty(t) ==
    /\ UNCHANGED nonUpVars
    /\ wk[t].pc = "get"
    /\ upload_queue = <<>>
    /\ wk' = [wk EXCEPT ![t].pc = "loop"]
    /\ UNCHANGED <<upload_queue, unfinished_tasks, up_running, workers, up_stats,
                   main_pc, main_stack, stop_wait, join_idx, next_payload,
                   enq_ret, accepted_running, enq_in_stop, taken, attempted>>

\* _upload_worker: upload_queue.task_done() after upload_sync returned
WorkerTaskDone(t) ==
    /\ UNCHANGED nonUpVars
    /\ wk[t].pc = "task_done"
    /\ unfinished_tasks' = unfinished_tasks - 1
    /\ wk' = [wk EXCEPT ![t] = FreshWorker]
    /\ UNCHANGED <<upload_queue, up_running, workers, up_stats,
                   main_pc, main_stack, stop_wait, join_idx, next_payload, enq_ret,
                   accepted_running, enq_in_stop, taken, attempted>>

Worker(t) ==
    \/ WorkerLoop(t)
    \/ WorkerGet(t)
    \/ WorkerGetEmpty(t)
    \/ \E resp \in Responses : UploadAttempt(t, resp)
    \/ WorkerTaskDone(t)

\* UploadManager.start(): no-op when running, else num_workers new threads
StartEffect ==
    IF up_running
    THEN UNCHANGED <<up_running, wk, workers>>
    ELSE /\ up_running' = TRUE
         /\ wk' = [t \in Tids |-> IF t \in ListTids THEN FreshWorker ELSE wk[t]]
         /\ workers' = workers \o [i \in 1..NumWorkers |-> i]

UpStart ==
    /\ UNCHANGED nonUpVars
    /\ main_pc = "idle"
    /\ StartEffect
    /\ UNCHANGED <<upload_queue, unfinished_tasks, up_stats, main_pc, main_stack, stop_wait,
                   join_idx, next_payload, enq_ret, accepted_running,
                   enq_in_stop, taken, attempted>>

\* Return from the outermost call, or to the caller on main_stack.
MainReturn ==
    IF main_stack = <<>>
    THEN main_pc' = "idle" /\ UNCHANGED main_stack
    ELSE main_pc' = Head(main_stack) /\ main_stack' = Tail(main_stack)

InStop == main_pc \in {"up_stop", "queue_join", "join_workers"}

\* a caller thread enters UploadManager.stop(wait_completion)
UpStopCall(wc) ==
    /\ UNCHANGED nonUpVars
    /\ main_pc = "idle"
    /\ main_pc' = "up_stop"
    /\ stop_wait' = wc
    /\ enq_in_stop' = FALSE
    /\ UNCHANGED <<upload_queue, unfinished_tasks, up_running, workers, up_stats,
                   wk, join_idx, main_stack, next_payload, enq_ret,
                   accepted_running, taken, attempted>>

\* stop(): "if not self.running: return", else "self.running = False"
UpStopBegin ==
    /\ UNCHANGED nonUpVars
    /\ main_pc = "up_stop"
    /\ IF ~up_running
       THEN /\ MainReturn
            /\ stop_wait' = FALSE
            /\ enq_in_stop' = FALSE
            /\ UNCHANGED <<up_running, join_idx>>
       ELSE /\ up_running' = FALSE
            /\ main_pc' = IF stop_wait THEN "queue_join" ELSE "join_workers"
            /\ join_idx' = 1
            /\ UNCHANGED <<stop_wait, enq_in_stop, main_stack>>
    /\ UNCHANGED <<upload_queue, unfinished_tasks, workers, up_stats, wk,
                   next_payload, enq_ret, accepted_running, taken, attempted>>

\* queue.Queue.join() blocks until every item put has had its task_done()
QueueJoinedMut == upload_queue = <<>>
QueueJoined == unfinished_tasks = 0

\* stop(): self.upload_queue.join() returns
UpQueueJoin ==
    /\ UNCHANGED nonUpVars
    /\ main_pc = "queue_join"
    /\ QueueJoined
    /\ main_pc' = "join_workers"
    /\ UNCHANGED <<upload_queue, unfinished_tasks, up_running, workers, up_stats,
                   wk, main_stack, stop_wait, join_idx, next_payload,
                   enq_ret, accepted_running, enq_in_stop, taken, attempted>>

\* worker.join(timeout=5.0) can give up only on a worker that stays busy for
\* more than 5 s: inside upload_sync (request timeout 10 s, backoff sleeps); a
\* worker polling the queue (1 s) sees running = False and exits in time.
JoinMayTimeOut(t) == wk[t].pc = "post"

Alive(t) == wk[t].pc \notin {"unborn", "exited"}

FreeOrphanSlots == {t \in Tids \ ListTids : wk[t].pc = "unborn"}

\* the elements of a set of numbers in increasing order
RECURSIVE SortedSeq(_)
SortedSeq(S) ==
    IF S = {} THEN <<>>
    ELSE LET m == CHOOSE x \in S : \A y \in S : x <= y
         IN <<m>> \o SortedSeq(S \ {m})

\* stop(): "for worker in self.workers: worker.join(timeout=5.0)"; the join
\* returns when the worker has ended, or gives up on a busy one (as long as
\* the model has room for one more thread outside the list)
UpJoinWorker ==
    /\ UNCHANGED nonUpVars
    /\ main_pc = "join_workers"
    /\ join_idx <= Len(workers)
    /\ \/ wk[workers[join_idx]].pc = "exited"
       \/ /\ JoinMayTimeOut(workers[join_idx])
          /\ Cardinality(FreeOrphanSlots) >
                 Cardinality({i \in 1..(join_idx - 1) : Alive(workers[i])})
    /\ join_idx' = join_idx + 1
    /\ UNCHANGED <<upload_queue, unfinished_tasks, up_running, workers, up_stats,
                   wk, main_pc, main_stack, stop_wait, next_payload,
                   enq_ret, accepted_running, enq_in_stop, taken, attempted>>

\* stop(): self.workers.clear() and return. The threads of the list that have
\* ended are dropped with it; those still running live on outside the list.
UpStopReturn ==
    /\ UNCHANGED nonUpVars
    /\ main_pc = "join_workers"
    /\ join_idx > Len(workers)
    /\ workers' = <<>>
    /\ LET alive == SelectSeq(workers, Alive)
           free == SortedSeq(FreeOrphanSlots)
       IN wk' = [t \in Tids |->
                   IF t \in ListTids THEN NoWorker
                   ELSE IF \E i \in 1..Len(alive) : free[i] = t
                        THEN wk[alive[CHOOSE i \in 1..Len(alive) : free[i] = t]]
                        ELSE wk[t]]
    /\ MainReturn
    /\ stop_wait' = FALSE
    /\ join_idx' = 0
    /\ enq_in_stop' = FALSE
    /\ UNCHANGED <<upload_queue, unfinished_tasks, up_running, up_stats,
                   next_payload, enq_ret, accepted_running, taken, attempted>>

StopStep == UpStopBegin \/ UpQueueJoin \/ UpJoinWorker \/ UpStopReturn

(***************************************************************************)
(* Camera arbiter: CameraManager instances and the registry they share.    *)
(* Every instance is used by a thread of its own; a step is one access to  *)
(* the shared registry or to the device, with the instance's own field     *)
(* updates around it.                                                      *)
(***************************************************************************)
\* CameraManager instances of the process: the controller constructs the
\* primary one and the one for config.camera.device2
NumInstances == 2
\* video devices of the host (/dev/video1, /dev/video2, ...)
NumDevices == 2

Instances == 1..NumInstances
Devices == 1..NumDevices

\* 0 stands for None in camera (the VideoCapture held) and _current_device_path
NoCamera == [pc |-> "unborn", device |-> 0, camera |-> 0, handle_open |-> FALSE,
             is_opened |-> FALSE, current |-> 0, target |-> 0,
             scanned |-> FALSE, cands |-> <<>>]

\* no capture() call has returned yet (inst = 0)
NoCapture == [inst |-> 0, success |-> FALSE, reads |-> 0, reconnects |-> 0]

CameraInit ==
    /\ connected_devices = {}
    /\ cam = [i \in Instances |-> NoCamera]
    /\ last_capture = NoCapture

\* CameraManager.is_opened()
IsOpened(c) == c.is_opened /\ c.camera # 0 /\ c.handle_open

\* CameraManager(device, auto_reconnect=True): the fields, then _init_camera(),
\* which starts with _connect_device(self.device)
CamNew(i, d) ==
    /\ cam[i].pc = "unborn"
    /\ cam' = [cam EXCEPT ![i] = [NoCamera EXCEPT !.pc = "check", !.device = d,
                                                  !.target = d]]
    /\ UNCHANGED <<connected_devices, upVars, ctlVars, retry_cfg, health, gpsVars, last_capture>>

\* The device behind an instance's VideoCapture goes away (unplugged, driver
\* fault): camera.isOpened() is False from then on.
DeviceLost(i) ==
    /\ cam[i].pc = "idle"
    /\ cam[i].handle_open
    /\ cam' = [cam EXCEPT ![i].handle_open = FALSE]
    /\ UNCHANGED <<connected_devices, upVars, ctlVars, retry_cfg, health, gpsVars, last_capture>>

\* capture() on an instance that is not opened: "self._init_camera()"
CamReinit(i) ==
    /\ cam[i].pc = "idle"
    /\ ~IsOpened(cam[i])
    /\ cam' = [cam EXCEPT ![i].pc = "check", ![i].target = cam[i].device,
                          ![i].scanned = FALSE, ![i].cands = <<>>]
    /\ UNCHANGED <<connected_devices, upVars, ctlVars, retry_cfg, health, gpsVars, last_capture>>

\* capture() on an opened instance: one camera.read(); "if not ret or frame
\* is None" it returns a failed CaptureResult at once, else the encoded frame.
\* The call makes no _init_camera() and no sleep on this path.
CaptureRead(i, ret) ==
    /\ cam[i].pc = "idle"
    /\ IsOpened(cam[i])
    /\ last_capture' = [inst |-> i, success |-> ret, reads |-> 1, reconnects |-> 0]
    /\ UNCHANGED <<connected_devices, cam, upVars, ctlVars, retry_cfg, health, gpsVars>>

\* _connect_device: "if device_path in CameraManager.connected_devices and
\* device_path != self._current_device_path: return False"
DeviceBusyMut(c, registry) == FALSE
DeviceBusy(c, registry) == c.target \in registry /\ c.target # c.current

ConnectCheck(i) ==
    /\ cam[i].pc = "check"
    /\ cam' = [cam EXCEPT ![i].pc =
                 IF DeviceBusy(cam[i], connected_devices) THEN "failed" ELSE "open"]
    /\ UNCHANGED <<connected_devices, upVars, ctlVars, retry_cfg, health, gpsVars, last_capture>>

\* _connect_device: cv2.VideoCapture(device_index); when it did not open,
\* return False, else "self.camera = camera; self._is_opened = True"
ConnectOpen(i, opens) ==
    /\ cam[i].pc = "open"
    /\ cam' = IF opens
              THEN [cam EXCEPT ![i].camera = cam[i].target,
                               ![i].handle_open = TRUE,
                               ![i].is_opened = TRUE,
                               ![i].pc = "discard_old"]
              ELSE [cam EXCEPT ![i].pc = "failed"]
    /\ UNCHANGED <<connected_devices, upVars, ctlVars, retry_cfg, health, gpsVars, last_capture>>

\* _connect_device: "if self._current_device_path and self._current_device_path
\* != device_path: CameraManager.connected_devices.discard(...)"
ConnectDiscardOld(i) ==
    /\ cam[i].pc = "discard_old"
    /\ connected_devices' =
           IF cam[i].current # 0 /\ cam[i].current # cam[i].target
           THEN connected_devices \ {cam[i].current}
           ELSE connected_devices
    /\ cam' = [cam EXCEPT ![i].pc = "claim"]
    /\ UNCHANGED <<upVars, ctlVars, retry_cfg, health, gpsVars, last_capture>>

\* _connect_device: "self._current_device_path = device_path;
\* CameraManager.connected_devices.add(device_path); return True", and
\* _init_camera returns (after "self.device = dev" for a scanned device)
ConfiguredDeviceMut(c) == c.device
ConfiguredDevice(c) == IF c.scanned THEN c.target ELSE c.device

ConnectClaim(i) ==
    /\ cam[i].pc = "claim"
    /\ connected_devices' = connected_devices \cup {cam[i].target}
    /\ cam' = [cam EXCEPT ![i].current = cam[i].target,
                          ![i].device = ConfiguredDevice(cam[i]),
                          ![i].target = 0,
                          ![i].cands = <<>>,
                          ![i].pc = "idle"]
    /\ UNCHANGED <<upVars, ctlVars, retry_cfg, health, gpsVars, last_capture>>

\* _scan_video_devices: the sorted device nodes that are not in the registry
\* or are the instance's own
ScanVideoDevicesMut(c, registry) == SortedSeq(Devices)
ScanVideoDevices(c, registry) ==
    SortedSeq({d \in Devices : d \notin registry \/ d = c.current})

\* _init_camera after _connect_device returned False: scan once, then try the
\* next candidate; "raise RuntimeError" when none is left
ConnectFailed(i) ==
    /\ cam[i].pc = "failed"
    /\ LET cands == IF cam[i].scanned THEN cam[i].cands
                    ELSE ScanVideoDevices(cam[i], connected_devices)
       IN cam' = IF cands = <<>>
                 THEN [cam EXCEPT ![i].pc = "raise", ![i].scanned = TRUE,
                                  ![i].cands = <<>>]
                 ELSE [cam EXCEPT ![i].pc = "check", ![i].scanned = TRUE,
                                  ![i].target = Head(cands),
                                  ![i].cands = Tail(cands)]
    /\ UNCHANGED <<connected_devices, upVars, ctlVars, retry_cfg, health, gpsVars, last_capture>>

\* _init_camera's except branch: "self._is_opened = False", and the registry
\* entry of the current device is discarded ...
InitRaise(i) ==
    /\ cam[i].pc = "raise"
    /\ connected_devices' = IF cam[i].current # 0
                            THEN connected_devices \ {cam[i].current}
                            ELSE connected_devices
    /\ cam' = [cam EXCEPT ![i].is_opened = FALSE,
                          ![i].target = 0,
                          ![i].pc = IF cam[i].current # 0 THEN "clear" ELSE "idle"]
    /\ UNCHANGED <<upVars, ctlVars, retry_cfg, health, gpsVars, last_capture>>

\* ... "self._current_device_path = None"; the error is swallowed
\* (auto_reconnect)
InitClear(i) ==
    /\ cam[i].pc = "clear"
    /\ cam' = [cam EXCEPT ![i].current = 0, ![i].pc = "idle"]
    /\ UNCHANGED <<connected_devices, upVars, ctlVars, retry_cfg, health, gpsVars, last_capture>>

\* close(): the registry entry it discards is "self._current_device_path"
\* (0: none, nothing is discarded)
ClaimToReleaseMut(c) == c.device
ClaimToRelease(c) == c.current

\* close(): "if self.camera is not None: self.camera.release();
\* self._is_opened = False" ...
CamClose(i) ==
    /\ cam[i].pc = "idle"
    /\ cam' = IF cam[i].camera # 0
              THEN [cam EXCEPT ![i].handle_open = FALSE,
                               ![i].is_opened = FALSE,
                               ![i].pc = IF ClaimToRelease(cam[i]) # 0
                                         THEN "close_discard" ELSE "idle"]
              ELSE cam
    /\ UNCHANGED <<connected_devices, upVars, ctlVars, retry_cfg, health, gpsVars, last_capture>>

\* ... "CameraManager.connected_devices.discard(self._current_device_path)" ...
CloseDiscard(i) ==
    /\ cam[i].pc = "close_discard"
    /\ connected_devices' = connected_devices \ {ClaimToRelease(cam[i])}
    /\ cam' = [cam EXCEPT ![i].pc = "close_clear"]
    /\ UNCHANGED <<upVars, ctlVars, retry_cfg, health, gpsVars, last_capture>>

\* ... "self._current_device_path = None"
CloseClear(i) ==
    /\ cam[i].pc = "close_clear"
    /\ cam' = [cam EXCEPT ![i].current = 0, ![i].pc = "idle"]
    /\ UNCHANGED <<connected_devices, upVars, ctlVars, retry_cfg, health, gpsVars, last_capture>>

(***************************************************************************)
(* Capture controller: MainController and the scheduler that runs          *)
(* _capture_task on every tick of the interval trigger.                    *)
(***************************************************************************)
\* cameras the controller polls: the primary one and config.camera.device2
NumCameras == 2
\* max_instances of the capture job
MaxInstances == 1
\* threads of the scheduler's executor that the model follows
ExecutorThreads == 2
\* interval-trigger firings explored
MaxTicks == 3
\* a non-zero ground speed, in knots
SomeKnots == 5

Executors == 1..ExecutorThreads

\* Optional values: <<>> is None, <<v>> is the value v.
\* What GPSReader.get_position_dict gives the cycle: an invalid fix has no
\* location, a valid one has a ground speed or none (the register read failed).
GpsFixes ==
    {[valid |-> FALSE, speed_knots |-> <<>>]} \cup
    {[valid |-> TRUE, speed_knots |-> k] : k \in {<<>>, <<0>>, <<SomeKnots>>}}

NoCycle == [pc |-> "none", events |-> <<>>, cam |-> 0, success |-> FALSE,
            fix |-> [valid |-> FALSE, speed_knots |-> <<>>],
            speed_kmh |-> <<>>, payload |-> [lng |-> "", lat |-> "", speed |-> ""]]

ZeroStats == [total_captures |-> 0, successful_captures |-> 0,
              failed_captures |-> 0, gps_valid_count |-> 0,
              gps_invalid_count |-> 0, upload_count |-> 0, last_error |-> None]

MainControllerInit ==
    /\ GPSReaderInit
    /\ ctl_running = FALSE
    /\ paused = FALSE
    /\ sched_running = FALSE
    /\ ticks = 0
    /\ skipped = 0
    /\ cyc = [e \in Executors |-> NoCycle]
    /\ camera_index = 0
    /\ stats = ZeroStats
    /\ start_ret = None
    /\ selected = <<>>

Executing == {e \in Executors : cyc[e].pc # "none"}

\* the scheduler submits a due run only while fewer than max_instances
\* instances of the job are executing
JobMayRunMut(n) == n < MaxInstances + 1
JobMayRun(n) == n < MaxInstances

\* The interval trigger fires: the executor starts an instance of
\* _capture_task, or the run is skipped (not kept for later).
Tick ==
    /\ UNCHANGED <<camVars, retry_cfg, health, gpsVars, start_ret, selected>>
    /\ sched_running
    /\ ticks < MaxTicks
    /\ next_payload <= MaxPayloads
    /\ ticks' = ticks + 1
    /\ IF JobMayRun(Cardinality(Executing)) /\ Executing # Executors
       THEN LET e == CHOOSE x \in Executors \ Executing :
                         \A y \in Executors \ Executing : x <= y
            IN cyc' = [cyc EXCEPT ![e] = [NoCycle EXCEPT !.pc = "begin"]]
               /\ UNCHANGED skipped
       ELSE /\ skipped' = skipped + 1
            /\ UNCHANGED cyc
    /\ UNCHANGED <<ctl_running, paused, sched_running, camera_index, stats, upVars>>

\* _capture_task: "if self.paused:"
IsPausedMut == FALSE
IsPaused == paused

\* (a cycle that starts with the positioning read)
CycleBeginMut(e) ==
    /\ UNCHANGED <<camVars, retry_cfg, health, gpsVars, start_ret, selected>>
    /\ cyc[e].pc = "begin"
    /\ cyc' = [cyc EXCEPT ![e].pc = IF paused THEN "done" ELSE "gps"]
    /\ UNCHANGED <<ctl_running, paused, sched_running, ticks, skipped, camera_index, stats, upVars>>

\* _capture_task: "if self.paused: return"
CycleBegin(e) ==
    /\ UNCHANGED <<camVars, retry_cfg, health, gpsVars, start_ret, selected>>
    /\ cyc[e].pc = "begin"
    /\ cyc' = [cyc EXCEPT ![e].pc = IF IsPaused THEN "done" ELSE "capture"]
    /\ UNCHANGED <<ctl_running, paused, sched_running, ticks, skipped, camera_index, stats, upVars>>

\* "if not capture_result.success: ... return"
CaptureNextMut(ok) == "gps"
CaptureNext(ok) == IF ok THEN "gps" ELSE "done"

\* "self.camera_index = (self.camera_index + 1) % len(self.camera_managers)"
NextCameraIndexMut(idx) == idx
NextCameraIndex(idx) == (idx + 1) % NumCameras

\* _capture_task step 1: current_cam.capture(), the index moves to the next
\* camera; a failed capture is counted and ends the cycle
CycleCapture(e, ok) ==
    /\ UNCHANGED <<camVars, retry_cfg, health, gpsVars, start_ret>>
    /\ cyc[e].pc = "capture"
    /\ camera_index' = NextCameraIndex(camera_index)
    /\ selected' = Append(selected, camera_index)
    /\ cyc' = [cyc EXCEPT ![e].events = Append(@, "capture"),
                          ![e].cam = camera_index,
                          ![e].success = ok,
                          ![e].pc = CaptureNext(ok)]
    /\ stats' = IF ok THEN stats
                ELSE [stats EXCEPT !.failed_captures = @ + 1,
                                   !.total_captures = @ + 1,
                                   !.last_error = "capture failed"]
    /\ UNCHANGED <<ctl_running, paused, sched_running, ticks, skipped, upVars>>

\* _capture_task step 2: gps_reader.get_position_dict() and the validity count
CycleGps(e, fix) ==
    /\ UNCHANGED <<camVars, retry_cfg, health, gpsVars, start_ret, selected>>
    /\ cyc[e].pc = "gps"
    /\ cyc' = [cyc EXCEPT ![e].events = Append(@, "gps"),
                          ![e].fix = fix,
                          ![e].pc = "pack"]
    /\ stats' = IF fix.valid
                THEN [stats EXCEPT !.gps_valid_count = @ + 1]
                ELSE [stats EXCEPT !.gps_invalid_count = @ + 1]
    /\ UNCHANGED <<ctl_running, paused, sched_running, ticks, skipped, camera_index, upVars>>

\* "speed_kmh = speed_knots * 1.852 if isinstance(speed_knots, (int, float))
\* else None", in thousandths of a km/h
SpeedKmh(speed_knots) ==
    IF speed_knots = <<>> THEN <<>> ELSE <<speed_knots[1] * 1852>>

\* _capture_task step 3: the payload; a field without a value is ""
CyclePack(e) ==
    /\ UNCHANGED <<camVars, retry_cfg, health, gpsVars, start_ret, selected>>
    /\ cyc[e].pc = "pack"
    /\ LET fix == cyc[e].fix
           speed_knots == IF fix.valid THEN fix.speed_knots ELSE <<>>
           speed_kmh == SpeedKmh(speed_knots)
       IN cyc' = [cyc EXCEPT
                    ![e].events = Append(@, "pack"),
                    ![e].speed_kmh = speed_kmh,
                    ![e].payload = [lng |-> IF fix.valid THEN "lng" ELSE "",
                                    lat |-> IF fix.valid THEN "lat" ELSE "",
                                    speed |-> IF speed_kmh # <<>> THEN "speed" ELSE ""],
                    ![e].pc = "upload"]
    /\ UNCHANGED <<ctl_running, paused, sched_running, ticks, skipped, camera_index, stats, upVars>>

\* "if speed_kmh is None or speed_kmh == 0": the cycle does not upload
SkipUploadNever(speed_kmh) == FALSE
SkipUploadMut(speed_kmh) == speed_kmh = <<>>
SkipUpload(speed_kmh) == speed_kmh = <<>> \/ speed_kmh = <<0>>

\* _capture_task step 4: enqueue unless the speed is unknown or zero, then
\* count the cycle as a successful capture
CycleUpload(e) ==
    /\ UNCHANGED <<camVars, retry_cfg, health, gpsVars, start_ret, selected>>
    /\ cyc[e].pc = "upload"
    /\ IF SkipUpload(cyc[e].speed_kmh)
       THEN /\ cyc' = [cyc EXCEPT ![e].pc = "done"]
            /\ stats' = [stats EXCEPT !.successful_captures = @ + 1,
                                      !.total_captures = @ + 1]
            /\ UNCHANGED <<upload_queue, unfinished_tasks, up_stats, next_payload,
                           enq_ret, accepted_running, enq_in_stop>>
       ELSE /\ EnqueueEffect(next_payload)
            /\ next_payload' = next_payload + 1
            /\ cyc' = [cyc EXCEPT ![e].events = Append(@, "enqueue"),
                                  ![e].pc = "done"]
            /\ stats' = IF ~QueueFull(upload_queue)
                        THEN [stats EXCEPT !.upload_count = @ + 1,
                                           !.successful_captures = @ + 1,
                                           !.total_captures = @ + 1]
                        ELSE [stats EXCEPT !.last_error = "Upload queue full",
                                           !.successful_captures = @ + 1,
                                           !.total_captures = @ + 1]
    /\ UNCHANGED <<ctl_running, paused, sched_running, ticks, skipped, camera_index,
                   up_running, workers, wk, main_pc, main_stack, stop_wait,
                   join_idx, taken, attempted>>

\* the handler of _capture_task's try block: "except Exception as e:" counts
\* a failed capture and keeps str(e) as last_error
HandleCycleErrorUncounted(st) ==
    [st EXCEPT !.failed_captures = @ + 1, !.last_error = "exception"]
HandleCycleErrorMut(st) == st
HandleCycleError(st) ==
    [st EXCEPT !.failed_captures = @ + 1,
               !.total_captures = @ + 1,
               !.last_error = "exception"]

\* A statement of the try block after the capture raises an exception (the
\* GPS read, the packing or the enqueue does not complete): the handler runs
\* and _capture_task returns normally
CycleRaise(e) ==
    /\ UNCHANGED <<camVars, retry_cfg, health, gpsVars, start_ret, selected>>
    /\ cyc[e].pc \in {"gps", "pack", "upload"}
    /\ cyc' = [cyc EXCEPT ![e].pc = "done"]
    /\ stats' = HandleCycleError(stats)
    /\ UNCHANGED <<ctl_running, paused, sched_running, ticks, skipped, camera_index, upVars>>

\* _capture_task has returned: the executor thread is free again
CycleReturn(e) ==
    /\ UNCHANGED <<camVars, retry_cfg, health, gpsVars, start_ret, selected>>
    /\ cyc[e].pc = "done"
    /\ cyc' = [cyc EXCEPT ![e] = NoCycle]
    /\ UNCHANGED <<ctl_running, paused, sched_running, ticks, skipped, camera_index, stats, upVars>>

\* what GPSReader.health_check and each CameraManager.health_check can report
\* to _health_check_all
CamHealth == {"ok", "not_opened", "test_capture_failed"}
HealthReports == [communication : BOOLEAN, cameras : [1..NumCameras -> CamHealth]]
\* the reports explored: at most one camera is unhealthy
FaultyCameras(h) == {i \in 1..NumCameras : h.cameras[i] # "ok"}
ExploredReports == {h \in HealthReports : Cardinality(FaultyCameras(h)) <= 1}

\* MainController._health_check_all: the GPS module communicates and every
\* configured camera is opened and passes its test capture; what the upload
\* manager's health check reports is printed only
HealthCheckAllMut(h) == h.communication
HealthCheckAll(h) == h.communication /\ \A i \in 1..NumCameras : h.cameras[i] = "ok"

\* start(): "self.stats['start_time'] = datetime.now()" is its only write to
\* the statistics (the times kept in stats are left out of the model)
StartStatsMut(st) == ZeroStats
StartStats(st) == st

\* MainController.start(), h being what the health checks report: returns at
\* once when running; raises RuntimeError when the health check fails; else
\* starts the pipeline, adds the job, starts the scheduler and sets the flags
CtlStart(h) ==
    /\ UNCHANGED <<camVars, retry_cfg, health, gpsVars, selected>>
    /\ main_pc = "idle"
    /\ IF ctl_running
       THEN /\ start_ret' = None
            /\ UNCHANGED <<ctl_running, paused, sched_running, stats, up_running, wk, workers>>
       ELSE IF ~HealthCheckAll(h)
       THEN /\ start_ret' = "RuntimeError"
            /\ UNCHANGED <<ctl_running, paused, sched_running, stats, up_running, wk, workers>>
       ELSE /\ StartEffect
            /\ sched_running' = TRUE
            /\ ctl_running' = TRUE
            /\ paused' = FALSE
            /\ stats' = StartStats(stats)
            /\ start_ret' = None
    /\ UNCHANGED <<ticks, skipped, cyc, camera_index, upload_queue, unfinished_tasks,
                   up_stats, main_pc, main_stack, stop_wait, join_idx,
                   next_payload, enq_ret, accepted_running, enq_in_stop, taken,
                   attempted>>

\* MainController.pause(): "self.paused = True"
CtlPause ==
    /\ UNCHANGED <<camVars, retry_cfg, health, gpsVars, start_ret, selected>>
    /\ main_pc = "idle"
    /\ paused' = TRUE
    /\ UNCHANGED <<ctl_running, sched_running, ticks, skipped, cyc, camera_index, stats, upVars>>

\* MainController.resume(): "self.paused = False"
CtlResume ==
    /\ UNCHANGED <<camVars, retry_cfg, health, gpsVars, start_ret, selected>>
    /\ main_pc = "idle"
    /\ paused' = FALSE
    /\ UNCHANGED <<ctl_running, sched_running, ticks, skipped, cyc, camera_index, stats, upVars>>

\* a caller thread enters MainController.stop()
CtlStopCall ==
    /\ UNCHANGED <<camVars, retry_cfg, health, gpsVars, start_ret, selected>>
    /\ main_pc = "idle"
    /\ main_pc' = "ctl_stop"
    /\ UNCHANGED <<ctlVars, upload_queue, unfinished_tasks, up_running, workers,
                   up_stats, wk, main_stack, stop_wait, join_idx, next_payload,
                   enq_ret, accepted_running, enq_in_stop, taken, attempted>>

\* stop(): "if not self.running: return", else "self.running = False"
CtlStopBegin ==
    /\ UNCHANGED <<camVars, retry_cfg, health, gpsVars, start_ret, selected>>
    /\ main_pc = "ctl_stop"
    /\ IF ~ctl_running
       THEN MainReturn /\ UNCHANGED ctl_running
       ELSE /\ ctl_running' = FALSE
            /\ main_pc' = "sched_shutdown"
            /\ UNCHANGED main_stack
    /\ UNCHANGED <<paused, sched_running, ticks, skipped, cyc, camera_index, stats,
                   upload_queue, unfinished_tasks, up_running, workers, up_stats,
                   wk, stop_wait, join_idx, next_payload, enq_ret,
                   accepted_running, enq_in_stop, taken, attempted>>

\* stop(): scheduler.shutdown(wait=True) stops the trigger ...
CtlSchedShutdown ==
    /\ UNCHANGED <<camVars, retry_cfg, health, gpsVars, start_ret, selected>>
    /\ main_pc = "sched_shutdown"
    /\ sched_running' = FALSE
    /\ main_pc' = "sched_wait"
    /\ UNCHANGED <<ctl_running, paused, ticks, skipped, cyc, camera_index, stats,
                   upload_queue, unfinished_tasks, up_running, workers, up_stats,
                   wk, main_stack, stop_wait, join_idx, next_payload, enq_ret,
                   accepted_running, enq_in_stop, taken, attempted>>

\* scheduler.shutdown(wait=True) returns once the executor has run every
\* instance submitted to it
ShutdownMayReturnMut == TRUE
ShutdownMayReturn == Executing = {}

\* ... and returns once the executing instances have ended; stop() then calls
\* upload_manager.stop(wait_completion=True)
CtlSchedWait ==
    /\ UNCHANGED <<camVars, retry_cfg, health, gpsVars, start_ret, selected>>
    /\ main_pc = "sched_wait"
    /\ ShutdownMayReturn
    /\ main_pc' = "up_stop"
    /\ main_stack' = <<"ctl_stop_ret">> \o main_stack
    /\ stop_wait' = TRUE
    /\ enq_in_stop' = FALSE
    /\ UNCHANGED <<ctlVars, upload_queue, unfinished_tasks, up_running, workers,
                   up_stats, wk, join_idx, next_payload, enq_ret,
                   accepted_running, taken, attempted>>

\* stop() returns after upload_manager.stop returned
CtlStopReturn ==
    /\ UNCHANGED <<camVars, retry_cfg, health, gpsVars, start_ret, selected>>
    /\ main_pc = "ctl_stop_ret"
    /\ MainReturn
    /\ UNCHANGED <<ctlVars, upload_queue, unfinished_tasks, up_running, workers,
                   up_stats, wk, stop_wait, join_idx, next_payload, enq_ret,
                   accepted_running, enq_in_stop, taken, attempted>>

\* A caller thread enters MainController.close(), which starts with
\* "self.stop()"
CtlCloseCall ==
    /\ UNCHANGED <<camVars, retry_cfg, health, gpsVars, start_ret, selected>>
    /\ main_pc = "idle"
    /\ main_pc' = "ctl_stop"
    /\ main_stack' = <<"close_cams">> \o main_stack
    /\ UNCHANGED <<ctl_running, paused, sched_running, ticks, skipped, cyc,
                   camera_index, stats, upload_queue, unfinished_tasks,
                   up_running, workers, up_stats, wk, stop_wait, join_idx,
                   next_payload, enq_ret, accepted_running, enq_in_stop, taken,
                   attempted>>

\* CameraManager.close() as one step of the only thread that uses the
\* instance: the fields and the registry after it
AfterClose(c) ==
    IF c.camera = 0 THEN c
    ELSE [c EXCEPT !.handle_open = FALSE,
                   !.is_opened = FALSE,
                   !.current = IF ClaimToRelease(c) # 0 THEN 0 ELSE @]

ReleasedByClose(c) ==
    IF c.camera # 0 /\ ClaimToRelease(c) # 0 THEN {ClaimToRelease(c)} ELSE {}

\* "for cam in self.camera_managers: cam.close()"
CloseAllCamerasMut(cams) == [i \in Instances |-> IF i = 1 THEN AfterClose(cams[i]) ELSE cams[i]]
CloseAllCameras(cams) == [i \in Instances |-> AfterClose(cams[i])]

\* close() after stop() returned: the GPS reader's serial port is closed, every
\* camera is closed, and upload_manager.close() is called, which starts with
\* "self.stop(wait_completion=True)"
CtlCloseCameras ==
    /\ UNCHANGED <<ctlVars, retry_cfg, health, gpsVars, last_capture>>
    /\ main_pc = "close_cams"
    /\ cam' = CloseAllCameras(cam)
    /\ connected_devices' =
           connected_devices \ UNION {ReleasedByClose(cam[i]) : i \in Instances}
    /\ main_pc' = "up_stop"
    /\ main_stack' = <<"close_ret">> \o main_stack
    /\ stop_wait' = TRUE
    /\ enq_in_stop' = FALSE
    /\ UNCHANGED <<upload_queue, unfinished_tasks, up_running, workers, up_stats,
                   wk, join_idx, next_payload, enq_ret, accepted_running, taken,
                   attempted>>

\* upload_manager.close() closes the session after its stop() returned, and
\* MainController.close() returns; the controller is not used afterwards
CtlCloseReturn ==
    /\ UNCHANGED <<camVars, ctlVars, retry_cfg, health, gpsVars>>
    /\ main_pc = "close_ret"
    /\ main_pc' = "closed"
    /\ UNCHANGED <<upload_queue, unfinished_tasks, up_running, workers, up_stats,
                   wk, main_stack, stop_wait, join_idx, next_payload, enq_ret,
                   accepted_running, enq_in_stop, taken, attempted>>

(***************************************************************************)
(* The pipeline on its own: a caller thread using start()/stop(), a        *)
(* producer thread using enqueue, and the worker threads.                  *)
(***************************************************************************)
InitUp == UploadManagerInit /\ MainControllerInit /\ CameraInit /\ ConfigInit

\* The backend of this specification answers 200 or not at all (a timeout):
\* one delivery that ends at its first attempt and one that is retried. The
\* other answers differ from these only in the statistics they leave.
UpResponses == {"200", "timeout"}

NextUp ==
    \/ Enqueue
    \/ UpStart
    \/ \E wc \in BOOLEAN : UpStopCall(wc)
    \/ UpStopBegin
    \/ UpQueueJoin
    \/ UpJoinWorker
    \/ UpStopReturn
    \/ \E t \in Tids : WorkerLoop(t)
    \/ \E t \in Tids : WorkerGet(t)
    \/ \E t \in Tids : WorkerGetEmpty(t)
    \/ \E t \in Tids, resp \in UpResponses : UploadAttempt(t, resp)
    \/ \E t \in Tids : WorkerTaskDone(t)

SpecUp == InitUp /\ [][NextUp]_vars

\* Threads are scheduled fairly: every worker thread and the thread blocked in
\* stop() keep taking steps while they can.
FairSpecUp ==
    /\ SpecUp
    /\ \A t \in Tids : WF_vars(Worker(t))
    /\ WF_vars(StopStep)

(***************************************************************************)
(* The running pipeline under a backend that gives every kind of answer:   *)
(* the state after start(), a producer thread and the worker threads.      *)
(***************************************************************************)
InitDeliver ==
    /\ health = NoHealth
    /\ upload_queue = <<>>
    /\ unfinished_tasks = 0
    /\ up_running = TRUE
    /\ workers = [i \in 1..NumWorkers |-> i]
    /\ up_stats = [total_uploaded |-> 0, total_failed |-> 0, last_error |-> None]
    /\ wk = [t \in Tids |-> IF t \in ListTids THEN FreshWorker ELSE NoWorker]
    /\ main_pc = "idle"
    /\ main_stack = <<>>
    /\ stop_wait = FALSE
    /\ join_idx = 0
    /\ next_payload = 1
    /\ enq_ret = None
    /\ accepted_running = {}
    /\ enq_in_stop = FALSE
    /\ taken = [p \in Payloads |-> 0]
    /\ attempted = {}
    /\ MainControllerInit
    /\ CameraInit
    /\ retry_cfg \in RetryConfigs

NextDeliver ==
    \/ Enqueue
    \/ \E t \in Tids : WorkerLoop(t)
    \/ \E t \in Tids : WorkerGet(t)
    \/ \E t \in Tids : WorkerGetEmpty(t)
    \/ \E t \in Tids, resp \in Responses : UploadAttempt(t, resp)
    \/ \E t \in Tids : WorkerTaskDone(t)

SpecDeliver == InitDeliver /\ [][NextDeliver]_vars

(***************************************************************************)
(* The controller with its pipeline: a caller thread using start(), stop(), *)
(* pause() and resume(), the scheduler and its capture cycles, and the      *)
(* worker threads under a backend that answers 200.                         *)
(***************************************************************************)
InitCtl == UploadManagerInit /\ MainControllerInit /\ CameraInit /\ ConfigInit

NextCtl ==
    \/ \E h \in ExploredReports : CtlStart(h)
    \/ CtlPause
    \/ CtlResume
    \/ CtlStopCall
    \/ CtlStopBegin
    \/ CtlSchedShutdown
    \/ CtlSchedWait
    \/ CtlStopReturn
    \/ Tick
    \/ \E e \in Executors : CycleBegin(e)
    \/ \E e \in Executors, ok \in BOOLEAN : CycleCapture(e, ok)
    \/ \E e \in Executors, fix \in GpsFixes : CycleGps(e, fix)
    \/ \E e \in Executors : CyclePack(e)
    \/ \E e \in Executors : CycleUpload(e)
    \/ \E e \in Executors : CycleRaise(e)
    \/ \E e \in Executors : CycleReturn(e)
    \/ UpStopBegin
    \/ UpQueueJoin
    \/ UpJoinWorker
    \/ UpStopReturn
    \/ \E t \in Tids : WorkerLoop(t)
    \/ \E t \in Tids : WorkerGet(t)
    \/ \E t \in Tids : WorkerGetEmpty(t)
    \/ \E t \in Tids : UploadAttempt(t, "200")
    \/ \E t \in Tids : WorkerTaskDone(t)

SpecCtl == InitCtl /\ [][NextCtl]_vars

(***************************************************************************)
(* The camera arbiters on their own: every instance is constructed, closed *)
(* and re-initialized by its own thread, concurrently with the others.     *)
(***************************************************************************)
InitCam == UploadManagerInit /\ MainControllerInit /\ CameraInit /\ ConfigInit

NextCam ==
    \/ \E i \in Instances, d \in Devices : CamNew(i, d)
    \/ \E i \in Instances : DeviceLost(i)
    \/ \E i \in Instances : CamReinit(i)
    \/ \E i \in Instances, ret \in BOOLEAN : CaptureRead(i, ret)
    \/ \E i \in Instances : ConnectCheck(i)
    \/ \E i \in Instances, opens \in BOOLEAN : ConnectOpen(i, opens)
    \/ \E i \in Instances : ConnectDiscardOld(i)
    \/ \E i \in Instances : ConnectClaim(i)
    \/ \E i \in Instances : ConnectFailed(i)
    \/ \E i \in Instances : InitRaise(i)
    \/ \E i \in Instances : InitClear(i)
    \/ \E i \in Instances : CamClose(i)
    \/ \E i \in Instances : CloseDiscard(i)
    \/ \E i \in Instances : CloseClear(i)

SpecCam == InitCam /\ [][NextCam]_vars

(***************************************************************************)
(* The positioning reader on its own: a caller reads one fix after         *)
(* another, and every transport attempt succeeds with one of the explored  *)
(* register values or fails.                                               *)
(***************************************************************************)
InitGps == UploadManagerInit /\ MainControllerInit /\ CameraInit /\ ConfigInit

NextGps ==
    \/ ReadGpsData
    \/ \E v \in UNION {RegValues(reg) : reg \in Registers} : TransportOk(v)
    \/ TransportFail

SpecGps == InitGps /\ [][NextGps]_vars

\* health_check() of the pipeline on its own, for every capacity up to
\* MaxCapacity, every queue length up to the capacity, every number of live
\* workers and every answer to the probe
MaxCapacity == 10

NextHealth ==
    \E max_queue_size \in 1..MaxCapacity, queue_size \in 0..MaxCapacity,
       alive \in 0..NumWorkers, answer \in ProbeAnswers :
          /\ queue_size <= max_queue_size
          /\ HealthCheck(max_queue_size, queue_size, alive, answer)

SpecHealth == InitUp /\ [][NextHealth]_vars

\* read_version on its own, called again and again
NextVersion ==
    \/ ReadVersion
    \/ \E v \in VersionValues : TransportOk(v)
    \/ TransportFail

SpecVersion == InitGps /\ [][NextVersion]_vars

(***************************************************************************)
(* The controller with its cameras, from construction to close(): the     *)
(* cameras are as _init_components left them (each one opened on its       *)
(* configured device, or not connected), devices can get lost while the    *)
(* controller runs, and the caller ends with close().                      *)
(***************************************************************************)
\* the devices the constructed cameras hold: camera i is configured with
\* device i and holds it, or holds none (0)
CameraAssignments == {a \in [Instances -> Devices \cup {0}] : \A i \in Instances : a[i] \in {0, i}}

ConstructedCamera(i, d) ==
    IF d = 0
    THEN [NoCamera EXCEPT !.pc = "idle", !.device = i, !.scanned = TRUE]
    ELSE [NoCamera EXCEPT !.pc = "idle", !.device = d, !.camera = d,
                          !.handle_open = TRUE, !.is_opened = TRUE,
                          !.current = d, !.scanned = (d # i)]

InitClose ==
    /\ UploadManagerInit /\ MainControllerInit /\ ConfigInit
    /\ last_capture = NoCapture
    /\ \E a \in CameraAssignments :
          /\ cam = [i \in Instances |-> ConstructedCamera(i, a[i])]
          /\ connected_devices = {a[i] : i \in Instances} \ {0}

\* the positioning fix of the cycles followed here: valid, moving
MovingFix == [valid |-> TRUE, speed_knots |-> <<SomeKnots>>]

NextClose ==
    \/ \E h \in ExploredReports : CtlStart(h)
    \/ CtlPause
    \/ CtlResume
    \/ CtlCloseCall
    \/ CtlStopBegin
    \/ CtlSchedShutdown
    \/ CtlSchedWait
    \/ CtlStopReturn
    \/ CtlCloseCameras
    \/ CtlCloseReturn
    \/ Tick
    \/ \E e \in Executors : CycleBegin(e)
    \/ \E e \in Executors : CycleCapture(e, TRUE)
    \/ \E e \in Executors : CycleGps(e, MovingFix)
    \/ \E e \in Executors : CyclePack(e)
    \/ \E e \in Executors : CycleUpload(e)
    \/ \E e \in Executors : CycleReturn(e)
    \/ UpStopBegin
    \/ UpQueueJoin
    \/ UpJoinWorker
    \/ UpStopReturn
    \/ \E t \in Tids : WorkerLoop(t)
    \/ \E t \in Tids : WorkerGet(t)
    \/ \E t \in Tids : WorkerGetEmpty(t)
    \/ \E t \in Tids : UploadAttempt(t, "200")
    \/ \E t \in Tids : WorkerTaskDone(t)
    \/ \E i \in Instances : DeviceLost(i)

SpecClose == InitClose /\ [][NextClose]_vars

(***************************************************************************)
(* Properties of the delivery pipeline.                                    *)
(***************************************************************************)

\* C3: enqueue never blocks and never grows the queue past max_queue_size: on
\* a full queue it returns False, drops the payload (queue and task count
\* unchanged) and records "Queue full" as last error; the queue length is at
\* most max_queue_size after every step.
C3_EnqueueBounded ==
    [][ /\ Len(upload_queue') <= MaxQueueSize
        /\ (next_payload <= MaxPayloads) => ENABLED Enqueue
        /\ (next_payload' # next_payload /\ Len(upload_queue) = MaxQueueSize)
              => /\ enq_ret' = "False"
                 /\ upload_queue' = upload_queue
                 /\ unfinished_tasks' = unfinished_tasks
                 /\ up_stats'.last_error = "Queue full"
      ]_vars

\* an enqueue call has been rejected: the queue is still full, nothing else
\* has happened to the statistics since
C3_Witness ==
    /\ enq_ret = "False"
    /\ Len(upload_queue) = MaxQueueSize
    /\ up_stats.last_error = "Queue full"

\* C4: every payload accepted by enqueue while the pipeline was running is
\* eventually given a delivery attempt, under fair scheduling.
C4_EveryAcceptedAttempted ==
    \A p \in Payloads : (p \in accepted_running) ~> (p \in attempted)

\* C5: a stop() that was asked to drain eventually returns, under fair
\* scheduling.
C5_DrainingStopReturns ==
    (InStop /\ stop_wait) ~> ~InStop

Drained(q, w, list) ==
    /\ q = <<>>
    /\ \A t \in Tids : w[t].pc \notin {"post", "task_done"}
    /\ list = <<>>

\* C6 as stated: whenever stop(wait_completion=True) returns, with no enqueue
\* during the call, the queue is empty, nothing is in flight and the worker
\* list is empty.
C6_StopReturnsDrained ==
    [][ (InStop /\ ~InStop' /\ stop_wait /\ ~enq_in_stop)
          => Drained(upload_queue', wk', workers') ]_vars

\* C6 amended: the same when stop(wait_completion=True) was called on a
\* running pipeline (the call went through its joins).
C6_RunningStopReturnsDrained ==
    [][ (main_pc = "join_workers" /\ ~InStop' /\ stop_wait /\ ~enq_in_stop)
          => Drained(upload_queue', wk', workers') ]_vars

\* a draining stop() of a running pipeline is about to return, no enqueue
\* came in during the call, and payloads had been delivered
C6_Witness ==
    /\ main_pc = "join_workers"
    /\ join_idx > Len(workers)
    /\ workers # <<>>
    /\ stop_wait
    /\ ~enq_in_stop
    /\ attempted # {}

\* C10: upload_sync calls session.post at most max_retries times for a
\* payload; a call the backend answers with a status other than
\* 200/400/401/403/404, or that times out or fails to connect, is followed by
\* a backoff sleep and a further attempt while attempts remain, and by a
\* counted terminal failure, without a sleep, when it was the max_retries-th.
C10_BoundedRetries ==
    [][ \A t \in Tids :
        \A answer \in {"forced_status", "other_status", "timeout", "connection_error"} :
          UploadAttempt(t, answer) =>
            /\ wk[t].posts < retry_cfg.max_attempts
            /\ wk'[t].posts = wk[t].posts + 1
            /\ (wk[t].posts + 1 < retry_cfg.max_attempts)
                  => /\ wk'[t].pc = "post"
                     /\ wk'[t].sleeps = wk[t].sleeps + 1
                     /\ wk'[t].data = wk[t].data
                     /\ up_stats' = up_stats
            /\ (wk[t].posts + 1 = retry_cfg.max_attempts)
                  => /\ wk'[t].pc = "task_done"
                     /\ wk'[t].sleeps = wk[t].sleeps
                     /\ up_stats'.total_failed = up_stats.total_failed + 1
      ]_vars

\* C11: an answer 400/401/403/404 ends upload_sync in the same iteration, on
\* whichever attempt index it comes: upload_sync returns (no further
\* session.post for the payload) and no backoff sleep is taken.
C11_ClientErrorTerminal ==
    [][ \A t \in Tids :
          UploadAttempt(t, "client_error") =>
            /\ wk'[t].pc = "task_done"
            /\ wk'[t].data = wk[t].data
            /\ wk'[t].posts = wk[t].posts + 1
            /\ wk'[t].sleeps = wk[t].sleeps
      ]_vars

\* upload_sync returned on a client error that came at attempt index 1: two
\* calls of session.post, one sleep (before the retry), nothing counted
C11_Witness ==
    \E t \in Tids :
        /\ wk[t].pc = "task_done"
        /\ wk[t].posts = 2
        /\ wk[t].sleeps = 1
        /\ up_stats.total_failed = 0
        /\ up_stats.total_uploaded = 0

\* C12: the sleep taken after failed attempt index i is
\* base_delay * exponential_base^i, for the configured base_delay and
\* exponential_base (2, 4, 8 seconds for the defaults and attempts 0, 1, 2).
C12_ConfiguredBackoff ==
    [][ \A t \in Tids :
          (wk'[t].sleeps = wk[t].sleeps + 1)
             => wk'[t].delay = retry_cfg.base_delay
                                 * Pow(retry_cfg.exponential_base, wk[t].attempt)
      ]_vars

(***************************************************************************)
(* Properties of the capture controller.                                   *)
(***************************************************************************)

\* C2: at most one instance of _capture_task executes at any time; a tick
\* that fires while an instance is executing starts nothing and changes
\* nothing but the tick and skip counts, and an instance starts only in the
\* step of a tick (a skipped run is not kept for later).
C2_OneCycleAtATime ==
    [][ /\ Cardinality(Executing') <= 1
        /\ (ticks' # ticks /\ Executing # {})
              => /\ cyc' = cyc
                 /\ skipped' = skipped + 1
                 /\ stats' = stats
                 /\ camera_index' = camera_index
                 /\ upVars' = upVars
        /\ (\E e \in Executors : cyc[e].pc = "none" /\ cyc'[e].pc # "none")
              => (ticks' = ticks + 1 /\ Executing = {})
      ]_vars

\* a tick fired while a cycle was executing and was skipped; the cycle is
\* still executing
C2_Witness ==
    /\ skipped > 0
    /\ \E e \in Executors : cyc[e].pc \in {"capture", "gps", "pack", "upload"}

\* C7: in a cycle whose capture failed, the capture is the only thing the
\* cycle did (no positioning read, no enqueue); the step of the failed
\* capture adds one to failed_captures and to total_captures, records the
\* capture error as last_error and leaves the other counters and the
\* delivery pipeline as they were.
C7_FailedCaptureAborts ==
    [][ \A e \in Executors :
          /\ (cyc'[e].events # <<>> /\ ~cyc'[e].success)
                => (cyc'[e].events = <<"capture">> /\ cyc'[e].pc = "done")
          /\ (cyc[e].events = <<>> /\ cyc'[e].events # <<>> /\ ~cyc'[e].success)
                => /\ stats' = [stats EXCEPT !.failed_captures = @ + 1,
                                             !.total_captures = @ + 1,
                                             !.last_error = "capture failed"]
                   /\ upVars' = upVars
      ]_vars

\* a cycle has ended on a failed capture, counted as failed
C7_Witness ==
    \E e \in Executors :
        /\ cyc[e].pc = "done"
        /\ cyc[e].events = <<"capture">>
        /\ ~cyc[e].success
        /\ stats.failed_captures = 1
        /\ stats.last_error = "capture failed"

\* the fix gives no usable speed: invalid, no speed reading, or zero knots
NoSpeed(fix) == ~fix.valid \/ fix.speed_knots = <<>> \/ fix.speed_knots = <<0>>

\* C8: the last step of a cycle whose speed is unknown or zero does not call
\* enqueue (queue, producer position and enqueue result unchanged, no enqueue
\* among the cycle's events) and counts the cycle as a successful capture.
C8_NoSpeedNoEnqueue ==
    [][ \A e \in Executors :
          (NoSpeed(cyc[e].fix) /\ CycleUpload(e))
             => /\ cyc'[e].events = <<"capture", "gps", "pack">>
                /\ upload_queue' = upload_queue
                /\ unfinished_tasks' = unfinished_tasks
                /\ next_payload' = next_payload
                /\ enq_ret' = enq_ret
                /\ stats' = [stats EXCEPT !.successful_captures = @ + 1,
                                          !.total_captures = @ + 1]
      ]_vars

\* a cycle with a valid fix and zero speed has ended, counted as successful
C8_Witness ==
    \E e \in Executors :
        /\ cyc[e].pc = "done"
        /\ cyc[e].fix.valid
        /\ cyc[e].fix.speed_knots = <<0>>
        /\ cyc[e].events = <<"capture", "gps", "pack">>
        /\ stats.successful_captures = 1
        /\ stats.upload_count = 0

IsPrefix(a, b) == Len(a) <= Len(b) /\ \A i \in 1..Len(a) : a[i] = b[i]

\* C9: what a cycle has done so far is always an initial part of: capture,
\* positioning read, payload assembly, enqueue; the validity counters move
\* only in the step of a positioning read that follows a capture, and the
\* producer position only in the step of an enqueue that follows the assembly.
C9_CycleOrder ==
    [][ /\ \A e \in Executors :
              IsPrefix(cyc'[e].events, <<"capture", "gps", "pack", "enqueue">>)
        /\ (stats'.gps_valid_count + stats'.gps_invalid_count
              # stats.gps_valid_count + stats.gps_invalid_count)
              => \E e \in Executors : /\ cyc[e].events = <<"capture">>
                                      /\ cyc'[e].events = <<"capture", "gps">>
        /\ (next_payload' # next_payload)
              => \E e \in Executors :
                    /\ cyc[e].events = <<"capture", "gps", "pack">>
                    /\ cyc'[e].events = <<"capture", "gps", "pack", "enqueue">>
      ]_vars

\* a cycle went through all four steps and its payload was accepted
C9_Witness ==
    \E e \in Executors :
        /\ cyc[e].pc = "done"
        /\ cyc[e].events = <<"capture", "gps", "pack", "enqueue">>
        /\ enq_ret = "True"
        /\ stats.upload_count = 1

\* C13: a call of start() on a controller that is not running, with a health
\* check that reports no GPS communication or a camera that is not opened or
\* failed its test capture, raises and changes nothing: no worker is started,
\* the scheduler is not started, running stays False; and as long as that call
\* is the latest call of start(), the pipeline and the scheduler are stopped
\* and no cycle executes.
C13_UnhealthyStartRefused ==
    /\ [][ \A h \in HealthReports :
            ( /\ ~ctl_running
              /\ \/ ~h.communication
                 \/ \E i \in 1..NumCameras :
                       h.cameras[i] \in {"not_opened", "test_capture_failed"}
              /\ CtlStart(h) )
            => /\ start_ret' = "RuntimeError"
               /\ UNCHANGED <<upVars, ctl_running, paused, sched_running, ticks,
                              skipped, cyc, camera_index, stats>>
          ]_vars
    /\ []( start_ret = "RuntimeError"
            => /\ ~ctl_running
               /\ ~sched_running
               /\ ~up_running
               /\ Executing = {} )
    /\ [][ (start_ret = "RuntimeError" /\ start_ret' = "RuntimeError")
            => (cyc' = cyc /\ ticks' = ticks /\ stats' = stats) ]_vars

\* start() was refused on a controller that had run cycles and was stopped
C13_Witness ==
    /\ start_ret = "RuntimeError"
    /\ ticks > 0
    /\ stats.total_captures > 0

\* C14: the controller's stop() stops the scheduler before it stops the
\* pipeline: once the scheduler is stopped no executor thread is given a new
\* cycle; the cycles given out before are left to finish; and from the moment
\* stop() has entered upload_manager.stop until stop() returns, the scheduler
\* is stopped, no cycle is executing and no cycle calls enqueue.
C14_StopOrder ==
    /\ [][ ~sched_running
            => \A e \in Executors : cyc[e].pc = "none" => cyc'[e].pc = "none" ]_vars
    /\ [][ (main_pc = "sched_wait" /\ Executing # {}) => main_pc' = "sched_wait" ]_vars
    /\ []( main_pc \in {"up_stop", "queue_join", "join_workers", "ctl_stop_ret"}
            => (~sched_running /\ ~ctl_running /\ Executing = {}) )
    /\ [][ (main_pc \in {"up_stop", "queue_join", "join_workers", "ctl_stop_ret"})
            => (next_payload' = next_payload /\ enq_in_stop' = FALSE) ]_vars

\* stop() has stopped the scheduler while a cycle is about to enqueue its
\* payload, with the pipeline still running
C14_Witness ==
    /\ main_pc = "sched_wait"
    /\ ~sched_running
    /\ up_running
    /\ \E e \in Executors : cyc[e].pc = "upload" /\ ~SkipUpload(cyc[e].speed_kmh)

\* C15: the k-th cycle that is not paused (k = 0, 1, ...) captures from
\* camera k mod N, so N consecutive ones use every camera once; the step to
\* the next camera is taken whether the capture succeeds or fails.
C15_RoundRobin ==
    /\ []( \A k \in 1..Len(selected) : selected[k] = (k - 1) % NumCameras )
    /\ []( \A k \in 1..Len(selected) :
             k + NumCameras - 1 <= Len(selected)
               => {selected[j] : j \in k..(k + NumCameras - 1)} = 0..(NumCameras - 1) )
    /\ [][ \A e \in Executors, ok \in BOOLEAN :
             CycleCapture(e, ok)
               => /\ cyc'[e].cam = camera_index
                  /\ camera_index' = (camera_index + 1) % NumCameras ]_vars

\* three cycles ran, the first capture failed, and the third cycle is back
\* at the first camera
C15_Witness ==
    /\ selected = <<0, 1, 0>>
    /\ stats.failed_captures >= 1
    /\ \E e \in Executors : cyc[e].pc = "done" /\ cyc[e].cam = 0

\* C16: a cycle that finds the controller paused returns at once: it
\* captures nothing, reads no position, enqueues nothing and leaves the
\* statistics, the round-robin index and the pipeline as they are; pause() and
\* resume() change the paused flag and nothing else (scheduler, cycles,
\* cameras, registry, queue and workers stay as they are).
C16_PausedCycleIdle ==
    /\ [][ \A e \in Executors :
             (cyc[e].pc = "begin" /\ paused /\ cyc'[e] # cyc[e])
               => /\ cyc'[e] = [NoCycle EXCEPT !.pc = "done"]
                  /\ UNCHANGED <<stats, camera_index, selected, upVars, camVars>>
          ]_vars
    /\ [][ \A e \in Executors :
             (cyc[e] = [NoCycle EXCEPT !.pc = "done"] /\ cyc'[e] # cyc[e])
               => /\ cyc'[e] = NoCycle
                  /\ UNCHANGED <<stats, camera_index, selected, upVars, camVars>>
          ]_vars
    /\ [][ (CtlPause \/ CtlResume)
             => UNCHANGED <<ctl_running, sched_running, ticks, skipped, cyc,
                            camera_index, stats, start_ret, selected, upVars,
                            camVars, retry_cfg, health, gpsVars>>
          ]_vars

\* a tick fired while paused, after a cycle that captured, and its cycle has
\* returned without doing anything
C16_Witness ==
    /\ paused
    /\ ctl_running
    /\ stats.total_captures = 1
    /\ ticks = 2
    /\ \E e \in Executors : cyc[e] = [NoCycle EXCEPT !.pc = "done"]

\* C17: the controller is never paused while it is not running, whatever
\* calls of start(), stop(), pause() and resume() were made.
C17_PausedOnlyWhileRunning == paused => ctl_running

\* C18: an exception raised inside a cycle ends that cycle only: the cycle
\* returns normally with failed_captures and total_captures counted and
\* last_error set, the scheduler, the running flag and the pipeline stay as
\* they are, the executor thread becomes free again, and every step of a
\* cycle leaves it either inside the body or returned.
C18_CycleErrorContained ==
    /\ [][ \A e \in Executors :
             CycleRaise(e)
               => /\ cyc'[e].pc = "done"
                  /\ stats'.failed_captures = stats.failed_captures + 1
                  /\ stats'.total_captures = stats.total_captures + 1
                  /\ stats'.last_error = "exception"
                  /\ UNCHANGED <<ctl_running, paused, sched_running, upVars>>
                  /\ \A o \in Executors \ {e} : cyc'[o] = cyc[o]
          ]_vars
    /\ [][ \A e \in Executors :
             cyc[e].pc = "done" => cyc'[e].pc \in {"done", "none"} ]_vars
    /\ []( \A e \in Executors :
             cyc[e].pc \in {"none", "begin", "capture", "gps", "pack", "upload", "done"} )

\* a cycle ended in the exception handler and a later tick's cycle has
\* captured and read the position
C18_Witness ==
    /\ stats.last_error = "exception"
    /\ stats.failed_captures = 1
    /\ stats.gps_valid_count + stats.gps_invalid_count = 2
    /\ \E e \in Executors : cyc[e].pc = "pack"

\* C19: no step of the controller (cycles, start, stop, pause, resume)
\* lowers total_captures, successful_captures, failed_captures,
\* gps_valid_count, gps_invalid_count or upload_count.
C19_CountersMonotonic ==
    [][ \A c \in {"total_captures", "successful_captures", "failed_captures",
                  "gps_valid_count", "gps_invalid_count", "upload_count"} :
          stats'[c] >= stats[c] ]_vars

\* two cycles were counted, a failed one and one whose payload was enqueued
\* and uploaded, and the controller is running
C19_Witness ==
    /\ ctl_running
    /\ sched_running
    /\ ticks = 2
    /\ Executing = {}
    /\ stats.total_captures = 2
    /\ stats.failed_captures = 1
    /\ stats.upload_count = 1
    /\ up_stats.total_uploaded = 1
    /\ workers = <<1, 2>>
    /\ \A t \in ListTids : wk[t].pc \in {"loop", "get"}

(***************************************************************************)
(* Properties of the camera arbiter.                                       *)
(***************************************************************************)

\* C1: at no time is a device the current device of two instances, under
\* every interleaving of the instances' construction, re-initialization and
\* close.
C1_NoSharedDevice ==
    \A i, j \in Instances :
        (i # j /\ cam[i].current # 0) => cam[i].current # cam[j].current

\* C20: whenever no instance is in the middle of a connect or a close, a
\* device is in the registry if and only if some constructed instance holds
\* it open (its VideoCapture is on that device and isOpened() is true).
C20_RegistryIffHeldOpen ==
    (\A i \in Instances : cam[i].pc \in {"unborn", "idle"})
       => \A d \in Devices :
             (d \in connected_devices)
                <=> \E i \in Instances :
                       /\ cam[i].pc = "idle"
                       /\ cam[i].camera = d
                       /\ cam[i].handle_open

\* C21: _connect_device on a device that is in the registry as the current
\* device of another constructed instance, and is not the caller's own, returns
\* False before it opens anything: the caller's VideoCapture, flags and current
\* device, the registry and every other instance stay as they are.
C21_BusyDeviceRefused ==
    [][ \A i \in Instances :
          ( /\ cam[i].pc = "check"
            /\ cam[i].target \in connected_devices
            /\ cam[i].target # cam[i].current
            /\ \E j \in Instances \ {i} :
                  cam[j].pc # "unborn" /\ cam[j].current = cam[i].target
            /\ cam'[i] # cam[i] )
          => /\ cam'[i] = [cam[i] EXCEPT !.pc = "failed"]
             /\ connected_devices' = connected_devices
             /\ \A j \in Instances \ {i} : cam'[j] = cam[j]
      ]_vars

\* an instance that holds a device of its own was refused the device another
\* instance holds open
C21_Witness ==
    \E i, j \in Instances :
        /\ i # j
        /\ cam[i].pc = "failed"
        /\ cam[i].current # 0
        /\ cam[i].target # cam[i].current
        /\ cam[j].pc = "idle"
        /\ cam[j].current = cam[i].target
        /\ IsOpened(cam[j])
        /\ cam[i].target \in connected_devices
        /\ cam[i].camera # cam[i].target

C23_FailoverFirstThatConnects ==
    /\ []( \A i \in Instances :
             (cam[i].scanned /\ cam[i].pc \in {"check", "open", "failed", "discard_old", "claim"})
               => \A k \in 1..Len(cam[i].cands) :
                     /\ cam[i].target < cam[i].cands[k]
                     /\ \A m \in 1..(k - 1) : cam[i].cands[m] < cam[i].cands[k] )
    /\ [][ \A i \in Instances :
             (cam[i].pc = "failed" /\ cam[i].scanned /\ cam'[i].pc = "check")
               => /\ cam'[i].target = Head(cam[i].cands)
                  /\ cam'[i].cands = Tail(cam[i].cands) ]_vars
    /\ [][ \A i \in Instances :
             (cam[i].pc \in {"check", "open", "failed"} /\ cam'[i] # cam[i])
               => connected_devices' = connected_devices ]_vars
    /\ [][ \A i \in Instances :
             (cam[i].pc = "claim" /\ cam[i].scanned /\ cam'[i] # cam[i])
               => /\ cam'[i].pc = "idle"
                  /\ IsOpened(cam'[i])
                  /\ cam'[i].camera = cam[i].target
                  /\ cam'[i].current = cam[i].target
                  /\ cam'[i].device = cam[i].target
                  /\ cam[i].target \in connected_devices' ]_vars

\* an instance is opened on the second device after the first one, which
\* nobody holds, failed to open
C23_Witness ==
    \E i \in Instances :
        /\ cam[i].pc = "idle"
        /\ cam[i].scanned
        /\ cam[i].device = 2
        /\ cam[i].current = 2
        /\ cam[i].camera = 2
        /\ IsOpened(cam[i])
        /\ connected_devices = {2}
        /\ \A j \in Instances \ {i} : cam[j].pc = "unborn"

\* C24: a capture() call on an opened camera that returned a failure made at
\* least one reconnect attempt after the failed read.
C24_FailedReadReconnects ==
    (last_capture.inst # 0 /\ ~last_capture.success) => last_capture.reconnects >= 1

ReadOf(reg) == gps_pc = reg /\ gps_pc' # reg

\* C27: when the read of the positioning status register returns anything but
\* the valid code (another code, or None after the failed attempts),
\* read_gps_data returns at once a fix with valid false and an error message,
\* and the only register a request was sent for is the positioning status.
C27_InvalidPositioningGate ==
    [][ (ReadOf("POSITIONING_STATUS")
           /\ last_read'.result # <<PositioningStatusVALID>>)
        => /\ gps_pc' = "idle"
           /\ gps_fix' # <<>>
           /\ ~gps_fix'[1].valid
           /\ gps_fix'[1].error_message # <<>>
           /\ gps_reads' = {"POSITIONING_STATUS"} ]_vars

\* read_gps_data returned after the status register answered the invalid code
C27_Witness ==
    /\ gps_pc = "idle"
    /\ gps_fix # <<>>
    /\ last_read.reg = "POSITIONING_STATUS"
    /\ last_read.result = <<0>>

\* C28: when the positioning status was valid and the antenna status register
\* answers open or short, read_gps_data returns at once a fix with valid false,
\* antenna_status "open" or "short" accordingly and the error message
\* "Antenna fault: <status>"; no position, time or satellite register was
\* asked for.
C28_AntennaFaultGate ==
    [][ (ReadOf("ANTENNA_STATUS")
           /\ last_read'.result \in {<<AntennaStatusOPEN>>, <<AntennaStatusSHORT>>})
        => /\ gps_pc' = "idle"
           /\ gps_fix' # <<>>
           /\ ~gps_fix'[1].valid
           /\ gps_fix'[1].antenna_status =
                 (IF last_read'.result = <<AntennaStatusOPEN>>
                  THEN <<"open">> ELSE <<"short">>)
           /\ gps_fix'[1].error_message =
                 (IF last_read'.result = <<AntennaStatusOPEN>>
                  THEN <<"Antenna fault: open">> ELSE <<"Antenna fault: short">>)
           /\ gps_reads' = {"POSITIONING_STATUS", "ANTENNA_STATUS"} ]_vars

\* read_gps_data returned after a valid positioning status and an open antenna
C28_Witness ==
    /\ gps_pc = "idle"
    /\ gps_fix # <<>>
    /\ last_read.reg = "ANTENNA_STATUS"
    /\ last_read.result = <<AntennaStatusOPEN>>

\* C29: a fix returned by read_gps_data with valid false has no latitude,
\* longitude, direction, altitude, speed, heading or timestamp, whichever of
\* the three gates returned it.
C29_InvalidFixHasNoPosition ==
    (gps_fix # <<>> /\ ~gps_fix[1].valid)
      => /\ gps_fix[1].latitude = <<>>
         /\ gps_fix[1].longitude = <<>>
         /\ gps_fix[1].lat_direction = <<>>
         /\ gps_fix[1].lon_direction = <<>>
         /\ gps_fix[1].altitude = <<>>
         /\ gps_fix[1].speed = <<>>
         /\ gps_fix[1].heading = <<>>
         /\ gps_fix[1].timestamp = <<>>

\* the position gate returned an invalid fix after the longitude had been read
\* and the latitude value could not be read
C29_Witness ==
    /\ gps_fix # <<>>
    /\ ~gps_fix[1].valid
    /\ last_read.reg = "LATITUDE_VALUE"
    /\ last_read.result = <<>>
    /\ gps_fix[1].error_message = <<"Failed to read position data">>

\* C30: a _read_register or _read_float call makes between one and three
\* transport attempts, has slept once after each failed attempt but the last
\* (so never after the attempt it returns from), returns the value of the
\* first attempt that succeeds, and returns None exactly when the third
\* attempt failed too; every failed attempt either leads to the next attempt
\* or to the return of None to read_gps_data.
C30_BoundedRetries ==
    /\ [](/\ gps_attempt \in 0..(Retry - 1)
          /\ gps_sleeps = gps_attempt
          /\ last_read.reg # ""
               => /\ last_read.attempts \in 1..Retry
                  /\ last_read.sleeps = last_read.attempts - 1
                  /\ (last_read.result = <<>>) => (last_read.attempts = Retry))
    /\ [][ \A v \in UNION {RegValues(reg) : reg \in Registers} :
             TransportOk(v)
               => /\ last_read'.result = <<v>>
                  /\ last_read'.attempts = gps_attempt + 1
                  /\ last_read'.reg = gps_pc ]_vars
    /\ [][ TransportFail
             => \/ (gps_attempt + 1 < Retry /\ gps_attempt' = gps_attempt + 1
                      /\ gps_pc' = gps_pc)
                \/ (gps_attempt + 1 = Retry /\ last_read'.result = <<>>
                      /\ last_read'.reg = gps_pc /\ gps_attempt' = 0) ]_vars

\* a float read has returned None after three failed attempts and two delays
C30_Witness ==
    /\ last_read.reg \in FloatRegisters
    /\ last_read.result = <<>>
    /\ last_read.attempts = Retry
    /\ last_read.sleeps = Retry - 1

\* C31 as stated: read_version returns "{v >> 4}.{v & 0xF}" for every value v
\* of the version register, and None exactly when the read gave up.
C31_VersionShiftedBy4 ==
    (gps_version # "unset" /\ last_read.reg = "VERSION")
      => IF last_read.result = <<>>
         THEN gps_version = None /\ last_read.attempts = Retry
         ELSE gps_version = ToString(last_read.result[1] \div 16) \o "."
                              \o ToString(last_read.result[1] % 16)

\* C31, amended: read_version returns "major.minor" where major and minor are
\* the two 4-bit halves of the low byte of the version register (the high byte
\* is not looked at), and None exactly when the read gave up after its three
\* attempts.
C31_VersionNibbles ==
    (gps_version # "unset" /\ last_read.reg = "VERSION")
      => IF last_read.result = <<>>
         THEN gps_version = None /\ last_read.attempts = Retry
         ELSE \E major, minor \in 0..15 :
                 /\ last_read.result[1] % 256 = 16 * major + minor
                 /\ gps_version = ToString(major) \o "." \o ToString(minor)

\* read_version returned for a register value above one byte
C31_Witness ==
    /\ gps_pc = "idle"
    /\ last_read.reg = "VERSION"
    /\ last_read.result = <<291>>
    /\ gps_version = "2.3"

\* C32: health_check reports the queue as ok when its length is below half the
\* capacity, warning when it is from half to eight tenths of the capacity
\* (both included), and critical above eight tenths.
C32_QueueOccupancyClasses ==
    health # NoHealth
      => health.queue_status =
           (IF 2 * health.queue_size < health.max_queue_size THEN "ok"
            ELSE IF 10 * health.queue_size <= 8 * health.max_queue_size
                 THEN "warning"
                 ELSE "critical")

\* C33: health_check reports the backend reachable exactly when the probe got
\* a response, whatever its status, and adds an error entry for the backend
\* exactly when the probe got none.
C33_AnyResponseIsReachable ==
    health # NoHealth
      => /\ health.backend_reachable <=> (health.answer \in ProbeResponses)
         /\ (\E k \in 1..Len(health.errors) : health.errors[k] = "Backend unreachable")
              <=> (health.answer \notin ProbeResponses)

\* the registers read_gps_data reads after the four position reads
LaterRegisters ==
    Registers \ {"POSITIONING_STATUS", "ANTENNA_STATUS", "LONGITUDE_DIRECTION",
                 "LONGITUDE_VALUE", "LATITUDE_DIRECTION", "LATITUDE_VALUE"}

\* C34: a position read that returns None leaves its local variable None; when
\* the fourth position read returns and one of the four values is None,
\* read_gps_data returns a fix with valid false and the error "Failed to read
\* position data", having asked for no altitude, speed, heading, time or
\* satellite register; such a register is only ever read with all four
\* position values present.
C34_PositionReadGate ==
    /\ [][ (ReadOf("LONGITUDE_DIRECTION") /\ last_read'.result = <<>>)
             => gps_locals'.lon_dir_code = <<>> /\ gps_pc' = "LONGITUDE_VALUE" ]_vars
    /\ [][ (ReadOf("LONGITUDE_VALUE") /\ last_read'.result = <<>>)
             => gps_locals'.lon_value = <<>> /\ gps_pc' = "LATITUDE_DIRECTION"
                  /\ gps_locals'.lon_dir_code = gps_locals.lon_dir_code ]_vars
    /\ [][ (ReadOf("LATITUDE_DIRECTION") /\ last_read'.result = <<>>)
             => gps_locals'.lat_dir_code = <<>> /\ gps_pc' = "LATITUDE_VALUE"
                  /\ gps_locals'.lon_dir_code = gps_locals.lon_dir_code
                  /\ gps_locals'.lon_value = gps_locals.lon_value ]_vars
    /\ [][ (ReadOf("LATITUDE_VALUE")
              /\ <<>> \in {gps_locals.lon_dir_code, gps_locals.lon_value,
                           gps_locals.lat_dir_code, last_read'.result})
             => /\ gps_pc' = "idle"
                /\ gps_fix' # <<>>
                /\ ~gps_fix'[1].valid
                /\ gps_fix'[1].error_message = <<"Failed to read position data">>
                /\ gps_reads' \cap LaterRegisters = {} ]_vars
    /\ [](gps_pc \in LaterRegisters
            => <<>> \notin {gps_locals.lon_dir_code, gps_locals.lon_value,
                            gps_locals.lat_dir_code, gps_locals.lat_value})

\* read_gps_data returned the position failure although the last of the four
\* reads succeeded: an earlier one had failed
C34_Witness ==
    /\ gps_pc = "idle"
    /\ gps_fix # <<>>
    /\ gps_fix[1].error_message = <<"Failed to read position data">>
    /\ last_read.reg = "LATITUDE_VALUE"
    /\ last_read.result # <<>>
    /\ last_read.attempts = 1

\* C35: after the four position reads passed, every later read is followed by
\* the next one whatever it returned, and the call ends with a fix with valid
\* true; altitude, speed and heading are what their reads returned (None when
\* unreadable), the timestamp is present only when all six time registers were
\* read and form a calendar date (of the values explored: 2025-02-28
\* 15:30:45), and a satellite count that could not be read is 0.
C35_OptionalReadsKeepFixValid ==
    /\ [][ (gps_pc \in LaterRegisters \ {"BDS_SATELLITES_USED"} /\ gps_pc' # gps_pc)
             => gps_pc' \in LaterRegisters /\ gps_fix' = <<>> ]_vars
    /\ [][ ReadOf("ALTITUDE") => gps_locals'.altitude = last_read'.result ]_vars
    /\ [][ ReadOf("GROUND_SPEED") => gps_locals'.speed = last_read'.result ]_vars
    /\ [][ ReadOf("GROUND_HEADING") => gps_locals'.heading = last_read'.result ]_vars
    /\ [][ ReadOf("BEIJING_SECOND")
             => (gps_locals'.timestamp # <<>>
                  <=> (/\ gps_locals.year = <<2025>> /\ gps_locals.month = <<2>>
                       /\ gps_locals.day = <<28>> /\ gps_locals.hour = <<15>>
                       /\ gps_locals.minute = <<30>>
                       /\ last_read'.result = <<45>>)) ]_vars
    /\ [][ ReadOf("GPS_SATELLITES_USED")
             => gps_locals'.gps_sats =
                   (IF last_read'.result = <<>> THEN 0 ELSE last_read'.result[1]) ]_vars
    /\ [][ ReadOf("BDS_SATELLITES_USED")
             => /\ gps_pc' = "idle"
                /\ gps_fix' # <<>>
                /\ gps_fix'[1].valid
                /\ gps_fix'[1].error_message = <<>>
                /\ gps_fix'[1].altitude = gps_locals.altitude
                /\ gps_fix'[1].speed = gps_locals.speed
                /\ gps_fix'[1].heading = gps_locals.heading
                /\ gps_fix'[1].timestamp = gps_locals.timestamp
                /\ gps_fix'[1].gps_satellites = gps_locals.gps_sats
                /\ gps_fix'[1].bds_satellites =
                      (IF last_read'.result = <<>> THEN 0 ELSE last_read'.result[1])
                /\ gps_fix'[1].latitude # <<>>
                /\ gps_fix'[1].longitude # <<>> ]_vars

\* a valid fix returned although altitude, speed, heading, the time and the
\* BeiDou satellite count could not be read
C35_Witness ==
    /\ gps_pc = "idle"
    /\ gps_fix # <<>>
    /\ gps_fix[1].valid
    /\ gps_fix[1].altitude = <<>>
    /\ gps_fix[1].speed = <<>>
    /\ gps_fix[1].heading = <<>>
    /\ gps_fix[1].timestamp = <<>>
    /\ gps_fix[1].bds_satellites = 0
    /\ last_read.reg = "BDS_SATELLITES_USED"
    /\ last_read.result = <<>>

\* C36: total_captures is always successful_captures + failed_captures; the
\* step that ends a cycle which was not skipped as paused (the failed capture,
\* the end of the upload step, or the exception handler) adds exactly one to
\* total_captures, a cycle skipped as paused adds nothing, and no other step
\* changes total_captures, so no cycle is counted twice.
C36_EachCycleCountedOnce ==
    /\ [](stats.total_captures = stats.successful_captures + stats.failed_captures)
    /\ [][ \A e \in Executors :
             (cyc[e].pc \in {"capture", "gps", "pack", "upload"} /\ cyc'[e].pc = "done")
               => /\ stats'.total_captures = stats.total_captures + 1
                  /\ stats'.successful_captures + stats'.failed_captures
                       = stats.successful_captures + stats.failed_captures + 1 ]_vars
    /\ [][ \A e \in Executors :
             (cyc[e].pc = "begin" /\ cyc'[e].pc = "done")
               => stats' = stats ]_vars
    /\ [][ (stats'.total_captures # stats.total_captures)
             => \E e \in Executors :
                   /\ cyc[e].pc \in {"capture", "gps", "pack", "upload"}
                   /\ cyc'[e].pc = "done" ]_vars

\* three cycles have ended: one by a failed capture or an exception, one by
\* the exception handler last, one with a successful capture
C36_Witness ==
    /\ stats.total_captures = 3
    /\ stats.failed_captures = 2
    /\ stats.successful_captures = 1
    /\ stats.last_error = "exception"
    /\ Executing = {}

\* C37: the step of a cycle that calls enqueue belongs to a cycle whose capture
\* succeeded and whose fix is valid with a speed that is neither unknown nor
\* zero, and the payload it passes has a non-empty lng, lat and speed; the
\* upload queue grows in no other step.
C37_NoEmptyFieldEnqueued ==
    /\ [][ \A e \in Executors :
             (cyc'[e].events # cyc[e].events
                /\ cyc'[e].events = <<"capture", "gps", "pack", "enqueue">>)
               => /\ cyc[e].success
                  /\ cyc[e].fix.valid
                  /\ cyc[e].fix.speed_knots \notin {<<>>, <<0>>}
                  /\ cyc[e].payload.lng # ""
                  /\ cyc[e].payload.lat # ""
                  /\ cyc[e].payload.speed # "" ]_vars
    /\ [][ (Len(upload_queue') > Len(upload_queue))
             => \E e \in Executors :
                   /\ cyc[e].events = <<"capture", "gps", "pack">>
                   /\ cyc'[e].events = <<"capture", "gps", "pack", "enqueue">> ]_vars

\* a cycle has put its payload on the queue, where it still waits
C37_Witness ==
    \E e \in Executors :
        /\ cyc[e].events = <<"capture", "gps", "pack", "enqueue">>
        /\ cyc[e].payload = [lng |-> "lng", lat |-> "lat", speed |-> "speed"]
        /\ Len(upload_queue) = 1
        /\ enq_ret = "True"

\* C38: every step in which a worker's upload_sync call returns adds exactly
\* one to total_uploaded + total_failed, whatever ended the call.
C38_EveryReturnCounted ==
    [][ \A t \in Tids :
          (wk[t].pc = "post" /\ wk'[t].pc = "task_done")
             => up_stats'.total_uploaded + up_stats'.total_failed
                  = up_stats.total_uploaded + up_stats.total_failed + 1 ]_vars

\* the workers that are inside upload_sync or task_done with payload p
Holding(p) == {t \in Tids : wk[t].pc \in {"post", "task_done"} /\ wk[t].data = p}

\* C39: no payload is taken from the queue more than once, a payload is never
\* both in the queue and in a worker's hands or in the hands of two workers,
\* and the queue grows only when enqueue appends a payload no worker has taken:
\* nothing is put back after a failure.
C39_DeliveredAtMostOnce ==
    /\ [](\A p \in Payloads :
            /\ taken[p] <= 1
            /\ Cardinality(Holding(p))
                 + Cardinality({k \in 1..Len(upload_queue) : upload_queue[k] = p}) <= 1
            /\ (taken[p] = 1) => (\A k \in 1..Len(upload_queue) : upload_queue[k] # p))
    /\ [][ (Len(upload_queue') > Len(upload_queue))
             => /\ upload_queue' = Append(upload_queue, next_payload)
                /\ next_payload' = next_payload + 1
                /\ taken[next_payload] = 0 ]_vars
    /\ [][ \A t \in Tids :
             (wk[t].pc = "post" /\ wk'[t].pc = "post")
               => wk'[t].data = wk[t].data /\ taken'[wk[t].data] = 1 ]_vars

\* two workers deliver two different payloads at the same time, after one of
\* them had its first attempt fail
C39_Witness ==
    \E t1, t2 \in Tids :
        /\ t1 # t2
        /\ wk[t1].pc = "post"
        /\ wk[t2].pc = "post"
        /\ wk[t1].data # wk[t2].data
        /\ wk[t1].posts = 1
        /\ \A p \in Payloads : taken[p] = 1

\* C40: at no time are more than num_workers worker threads alive (started and
\* not ended), whatever start() and stop() calls were made.
C40_AtMostNumWorkersAlive ==
    Cardinality({t \in Tids : Alive(t)}) <= NumWorkers

====
